---- MODULE Spec2Model ----
(***************************************************************************)
(* Semantic Canvas: the canvas -> note-properties pipeline.                *)
(*                                                                         *)
(* A canvas file (nodes and edges) is read by getCanvasMap, which          *)
(* partitions the nodes by type, resolves geometric group containment,     *)
(* flags bidirectional edges and appends "phantom" edges for edges that    *)
(* point at a group.  pushCanvasDataToNotes then builds one FileNode per   *)
(* file node of the canvas; the FileNode constructor derives the property  *)
(* map (propsOnCanvas) of that node.                                       *)
(***************************************************************************)
EXTENDS Integers, Sequences, FiniteSets, TLC

(***************************************************************************)
(* Bounds of the model.                                                    *)
(***************************************************************************)
\* coordinates of the freely placed nodes range over 0..GridMax
GridMax == 3
\* the most list properties of the note a canvas is made from, and the most
\* values of a list
MaxProps == 3
MaxVals == 2
\* longest edge list of the canvases built from EdgePalette
MaxEdges == 2

\* pull runs in one behaviour
MaxPulls == 2

\* push runs in one behaviour
MaxRuns == 2

\* writes of canvas files while a canvas is open
MaxWrites == 2

(***************************************************************************)
(* Values.  A JavaScript `undefined` (an absent optional field) is the     *)
(* value NoVal.                                                            *)
(***************************************************************************)
NoVal == "<undefined>"

Range(s) == {s[i] : i \in 1..Len(s)}

\* Array.prototype.filter
Filter(s, Test(_)) == SelectSeq(s, Test)

\* Array.prototype.some
Some(s, Test(_)) == \E i \in 1..Len(s) : Test(s[i])

\* Array.prototype.find: the first match, or NoVal
Find(s, Test(_)) ==
    IF Some(s, Test)
    THEN s[CHOOSE i \in 1..Len(s) : Test(s[i]) /\ \A j \in 1..(i-1) : ~Test(s[j])]
    ELSE NoVal

\* Array.prototype.map
Map(s, F(_)) == [i \in 1..Len(s) |-> F(s[i])]

(***************************************************************************)
(* Settings (SemanticCanvasPluginSettings), the part the runs read.        *)
(* excludeKeys is kept as the pieces its split(',') gives.                 *)
(***************************************************************************)
DEFAULT_SETTINGS ==
    [ cardDefault |-> "cards", fileDefault |-> "files", urlDefault |-> "urls",
      groupDefault |-> "groups",
      useCards |-> TRUE, useUrls |-> TRUE, useFiles |-> TRUE, useGroups |-> FALSE,
      excludeKeys |-> <<"alias", "aliases", "tags", "cssClasses">>,
      useBacklinks |-> TRUE, backlinksHeading |-> "## Connections" ]

\* String.prototype.toUpperCase on the keys that occur here (any other
\* string of the model has no lower-case letter)
toUpperCase(s) ==
    CASE s \in {"tags", "Tags"} -> "TAGS"
      [] s = "alias" -> "ALIAS"
      [] s = "aliases" -> "ALIASES"
      [] s = "cssClasses" -> "CSSCLASSES"
      [] s \in {"topic", "Topic"} -> "TOPIC"
      [] s = "kind" -> "KIND"
      [] s = "groups" -> "GROUPS"
      [] s = "cards" -> "CARDS"
      [] s = "files" -> "FILES"
      [] s = "urls" -> "URLS"
      [] s = "https://x.org" -> "HTTPS://X.ORG"
      [] s = "hello" -> "HELLO"
      [] s = "title" -> "TITLE"
      [] s = "a sentence of some length" -> "A SENTENCE OF SOME LENGTH"
      [] OTHER -> s

\* String.prototype.trim on the pieces of excludeKeys
\* white space as \s and trim know it, as far as the texts of the model go
isSpace(c) == c \in {" ", "\n", "\t"}

RECURSIVE trimStart(_)
trimStart(s) ==
    IF s # "" /\ isSpace(SubSeq(s, 1, 1)) THEN trimStart(SubSeq(s, 2, Len(s))) ELSE s

RECURSIVE trimEnd(_)
trimEnd(s) ==
    IF s # "" /\ isSpace(SubSeq(s, Len(s), Len(s))) THEN trimEnd(SubSeq(s, 1, Len(s) - 1))
    ELSE s

trim(s) == trimEnd(trimStart(s))

\* every combination of the four category toggles, default keys as shipped
AllSettings ==
    { [DEFAULT_SETTINGS EXCEPT !.useCards = c, !.useUrls = u, !.useFiles = f, !.useGroups = g] :
        c \in BOOLEAN, u \in BOOLEAN, f \in BOOLEAN, g \in BOOLEAN }

AllOn == [DEFAULT_SETTINGS EXCEPT !.useGroups = TRUE]

(***************************************************************************)
(* Raw canvas nodes (CanvasNodeData).  One record shape for all types; a   *)
(* field a type does not carry is NoVal.  x and y are numbers, or, with    *)
(* xyText set, the decimal texts of numbers (a JSON string such as "650"). *)
(***************************************************************************)
RawNode(id, type, x, y, w, h) ==
    [ id |-> id, type |-> type, x |-> x, y |-> y, width |-> w, height |-> h,
      xyText |-> FALSE, text |-> NoVal, url |-> NoVal, file |-> NoVal, subpath |-> NoVal, label |-> NoVal ]

CardNode(id, text, x, y, w, h)  == [RawNode(id, "text", x, y, w, h) EXCEPT !.text = text]
FileData(id, path, sub, x, y, w, h) ==
    [RawNode(id, "file", x, y, w, h) EXCEPT !.file = path, !.subpath = sub]
UrlNode(id, url, x, y, w, h)    == [RawNode(id, "link", x, y, w, h) EXCEPT !.url = url]
GroupNode(id, label, x, y, w, h) == [RawNode(id, "group", x, y, w, h) EXCEPT !.label = label]

\* Raw canvas edge (CanvasEdgeData): label, fromEnd and toEnd are optional.
\* isBidirectional is not part of the file: it is undefined (falsy) until
\* getCanvasEdges sets it.
RawEdge(id, from, to, label, fromEnd, toEnd) ==
    [ id |-> id, fromNode |-> from, toNode |-> to, label |-> label,
      fromEnd |-> fromEnd, toEnd |-> toEnd, isBidirectional |-> FALSE ]

(***************************************************************************)
(* getCanvasNodes: partition by type and resolve group containment.        *)
(***************************************************************************)
\* the value of one decimal digit
digitValue(c) ==
    CASE c = "0" -> 0 [] c = "1" -> 1 [] c = "2" -> 2 [] c = "3" -> 3 [] c = "4" -> 4
      [] c = "5" -> 5 [] c = "6" -> 6 [] c = "7" -> 7 [] c = "8" -> 8 [] c = "9" -> 9

\* ToNumber of the decimal text of a natural number, which is how the
\* comparison operators read a string operand next to a number
RECURSIVE toNumber(_)
toNumber(s) ==
    IF s = "" THEN 0
    ELSE toNumber(SubSeq(s, 1, Len(s) - 1)) * 10 + digitValue(SubSeq(s, Len(s), Len(s)))

\* node.x and node.y as a comparison with a number reads them
numberOfX(node) == IF node.xyText THEN toNumber(node.x) ELSE node.x
numberOfY(node) == IF node.xyText THEN toNumber(node.y) ELSE node.y

\* node.x + node.width and node.y + node.height: the sum of two numbers, or
\* the text of the first followed by the text of the second, read as a number
xPlusWidth(node) ==
    IF node.xyText THEN toNumber(node.x \o ToString(node.width)) ELSE node.x + node.width
yPlusHeight(node) ==
    IF node.xyText THEN toNumber(node.y \o ToString(node.height)) ELSE node.y + node.height

\* a variant with strict comparisons: a node touching the border is outside
groupContainsNodeStrict(group, node) ==
    IF group.y >= numberOfY(node) THEN FALSE
    ELSE IF group.y + group.height <= yPlusHeight(node) THEN FALSE
    ELSE IF group.x >= numberOfX(node) THEN FALSE
    ELSE IF group.x + group.width <= xPlusWidth(node) THEN FALSE
    ELSE TRUE

\* Returns true if the group's outer bounds wholly contain the node's.  The
\* x and y of a group are numbers in every canvas read here.
groupContainsNode(group, node) ==
    IF group.y > numberOfY(node) THEN FALSE
    ELSE IF group.y + group.height < yPlusHeight(node) THEN FALSE
    ELSE IF group.x > numberOfX(node) THEN FALSE
    ELSE IF group.x + group.width < xPlusWidth(node) THEN FALSE
    ELSE TRUE

\* The typed collections.  A group gets containedNodes (files, then cards,
\* then urls it contains, each in canvas order) and a file gets inGroups (the
\* groups that contain it, in canvas order of the groups).  Both hold object
\* references in the program; here they hold the ids of those objects.
getCanvasNodes(data) ==
    LET cards  == Filter(data.nodes, LAMBDA n : n.type = "text")
        files  == Filter(data.nodes, LAMBDA n : n.type = "file")
        urls   == Filter(data.nodes, LAMBDA n : n.type = "link")
        groups == Filter(data.nodes, LAMBDA n : n.type = "group")
        ids(s) == Map(s, LAMBDA n : n.id)
        inside(group, s) == ids(Filter(s, LAMBDA n : groupContainsNode(group, n)))
    IN  [ cards  |-> cards,
          files  |-> Map(files, LAMBDA file :
                        file @@ [inGroups |->
                            ids(Filter(groups, LAMBDA group : groupContainsNode(group, file)))]),
          urls   |-> urls,
          groups |-> Map(groups, LAMBDA group :
                        group @@ [containedNodes |->
                            inside(group, files) \o inside(group, cards) \o inside(group, urls)]) ]

(***************************************************************************)
(* getCanvasEdges: flag every edge of the file.                            *)
(***************************************************************************)
\* a variant that takes "two arrow heads" for bidirectional
edgeIsBidirectionalTwoHeads(edge) == edge.fromEnd = "arrow" /\ edge.toEnd # "none"

edgeIsBidirectional(edge) == edge.fromEnd = "arrow" \/ edge.toEnd = "none"

getCanvasEdges(data) ==
    Map(data.edges, LAMBDA edge : [edge EXCEPT !.isBidirectional = edgeIsBidirectional(edge)])

(***************************************************************************)
(* getCanvasMap: typed nodes + flagged edges + phantom edges.              *)
(***************************************************************************)
\* "none" stands for the thrown Error('No type found for id: ...')
getTypeOfNodeById(map, nodeId) ==
    IF Some(map.cards, LAMBDA card : card.id = nodeId) THEN "card"
    ELSE IF Some(map.files, LAMBDA file : file.id = nodeId) THEN "file"
    ELSE IF Some(map.urls, LAMBDA url : url.id = nodeId) THEN "url"
    ELSE IF Some(map.groups, LAMBDA group : group.id = nodeId) THEN "group"
    ELSE "none"

\* the type field of the node object a containedNodes entry refers to
containedNodeType(map, nodeId) ==
    LET all == map.files \o map.cards \o map.urls \o map.groups
    IN  Find(all, LAMBDA n : n.id = nodeId).type

\* a variant that prefers the group's label to the edge's
phantomLabelGroupFirst(group, edge) ==
    IF group.label # NoVal THEN group.label ELSE edge.label

\* label of a phantom edge: edge.hasOwnProperty('label') ? edge.label : group.label
phantomLabel(group, edge) ==
    IF edge.label # NoVal THEN edge.label ELSE group.label

\* a variant that expands to the cards of the group only
makePhantomEdgesToCardsOnly(map, group, edge) ==
    LET members == Filter(group.containedNodes,
                          LAMBDA id : containedNodeType(map, id) = "text")
    IN  Map(members, LAMBDA id :
            [ id |-> edge.id \o "-phantom", fromNode |-> edge.fromNode, toNode |-> id,
              label |-> IF edge.label # NoVal THEN edge.label ELSE group.label,
              fromEnd |-> NoVal, toEnd |-> NoVal, isBidirectional |-> FALSE ])

\* a variant whose phantom edges start at the group instead of the source
makePhantomEdgesFromGroup(map, group, edge) ==
    LET members == Filter(group.containedNodes,
                          LAMBDA id : containedNodeType(map, id) # "group")
    IN  Map(members, LAMBDA id :
            [ id |-> edge.id \o "-phantom", fromNode |-> group.id, toNode |-> id,
              label |-> IF edge.label # NoVal THEN edge.label ELSE group.label,
              fromEnd |-> NoVal, toEnd |-> NoVal, isBidirectional |-> FALSE ])

\* The phantom edges of one edge that points at `group`, in containedNodes
\* order.  A phantom edge has no fromEnd/toEnd and no isBidirectional.
makePhantomPropagatedEdgesToGroupContents(map, group, edge) ==
    LET members == Filter(group.containedNodes,
                          LAMBDA id : containedNodeType(map, id) # "group")
    IN  Map(members, LAMBDA id :
            [ id |-> edge.id \o "-phantom", fromNode |-> edge.fromNode, toNode |-> id,
              label |-> phantomLabel(group, edge),
              fromEnd |-> NoVal, toEnd |-> NoVal, isBidirectional |-> FALSE ])

\* edges.forEach over the edges read from the file: forEach visits only the
\* elements present when it starts, so the phantom edges pushed during the
\* loop are not visited.  i is the index of the next edge to visit, n the
\* length of the list at the start, acc the list so far.
RECURSIVE expandEdges(_, _, _, _)
expandEdges(map, acc, i, n) ==
    IF i > n THEN acc
    ELSE LET edge == acc[i]
             toType == getTypeOfNodeById(map, edge.toNode)
         IN  IF toType = "group"
             THEN LET group == Find(map.groups, LAMBDA g : g.id = edge.toNode)
                  IN  expandEdges(map,
                        acc \o makePhantomPropagatedEdgesToGroupContents(map, group, edge),
                        i + 1, n)
             ELSE expandEdges(map, acc, i + 1, n)

\* The CanvasMap, or the record of a thrown error: getTypeOfNodeById throws at
\* the first edge whose toNode names no card, file, url or group.
getCanvasMap(data) ==
    LET map   == getCanvasNodes(data)
        edges == getCanvasEdges(data)
        threw == Some(edges, LAMBDA edge : getTypeOfNodeById(map, edge.toNode) = "none")
    IN  IF threw
        THEN [ error |-> "No type found for id", cards |-> <<>>, files |-> <<>>,
               urls |-> <<>>, groups |-> <<>>, edges |-> <<>> ]
        ELSE [ error |-> NoVal, cards |-> map.cards, files |-> map.files,
               urls |-> map.urls, groups |-> map.groups,
               edges |-> expandEdges(map, edges, 1, Len(edges)) ]

(***************************************************************************)
(* Property maps.  propsOnCanvas is a JavaScript object whose keys keep    *)
(* their insertion order: a sequence of [key, vals] entries with distinct  *)
(* keys.  The null sentinel is the record NullProps.                       *)
(***************************************************************************)
EmptyProps == [isNull |-> FALSE, entries |-> <<>>]
NullProps  == [isNull |-> TRUE,  entries |-> <<>>]

\* props.hasOwnProperty(key)
hasOwnProperty(props, key) == Some(props.entries, LAMBDA e : e.key = key)

\* props[key]
valuesOf(props, key) == Find(props.entries, LAMBDA e : e.key = key).vals

\* Object.keys(props)
keysOf(props) == Map(props.entries, LAMBDA e : e.key)

\* props[key] = vals
assignKey(props, key, vals) ==
    IF hasOwnProperty(props, key)
    THEN [props EXCEPT !.entries =
            Map(props.entries, LAMBDA e : IF e.key = key THEN [e EXCEPT !.vals = vals] ELSE e)]
    ELSE [props EXCEPT !.entries = Append(props.entries, [key |-> key, vals |-> vals])]

\* the body of the three forEach loops of the constructor:
\* create [val] under a new key, push val under an existing one
pushProp(props, key, val) ==
    IF ~hasOwnProperty(props, key)
    THEN assignKey(props, key, <<val>>)
    ELSE assignKey(props, key, Append(valuesOf(props, key), val))

(***************************************************************************)
(* FileNode: the constructor derives propsOnCanvas for one file node.      *)
(***************************************************************************)
\* metadataCache.fileToLinktext of the vault file a path resolves to: the
\* link text of a Markdown file is its path without the extension.
fileToLinktext(path) ==
    CASE path = "a.md" -> "a"
      [] path = "b.md" -> "b"
      [] OTHER -> path

convertToWikilink(otherSide) ==
    LET linkTextContent == fileToLinktext(otherSide.file)
    IN  "[[" \o (IF otherSide.subpath # NoVal
                  THEN linkTextContent \o otherSide.subpath
                  ELSE linkTextContent) \o "]]"

\* [file.id, ...file.inGroups.map(g => g.id)]
relevantIds(file) == <<file.id>> \o file.inGroups

\* a variant that overlooks the bidirectional edges that arrive at the file
isRelevantEdgeOutgoingOnly(file, edge) ==
    Some(relevantIds(file), LAMBDA id : edge.fromNode = id)

\* the filter predicate of relevantEdges
isRelevantEdge(file, edge) ==
    \/ Some(relevantIds(file), LAMBDA id : edge.fromNode = id)
    \/ Some(relevantIds(file), LAMBDA id : edge.toNode = id /\ edge.isBidirectional)

relevantEdges(file, data) == Filter(data.edges, LAMBDA edge : isRelevantEdge(file, edge))

\* a variant that takes toNode only when the file is the literal fromNode
otherSideIdOfSourceOnly(file, edge) ==
    IF file.id = edge.fromNode THEN edge.toNode ELSE edge.fromNode

\* the id of the other side of an edge, seen from `file`
otherSideIdOf(file, edge) ==
    IF file.id = edge.toNode THEN edge.fromNode ELSE edge.toNode

\* a variant in which the label of the edge does not replace the default key
connectionPropsDefaultKey(file, edge, data, settings) ==
    LET otherSideId == otherSideIdOf(file, edge)
        is(n)  == n.id = otherSideId
        type  == IF Some(data.cards, is) THEN "card"
                 ELSE IF Some(data.urls, is) THEN "url"
                 ELSE IF Some(data.files, is) THEN "file"
                 ELSE IF Some(data.groups, is) THEN "group"
                 ELSE "none"
        propVal == IF type = "card" THEN Find(data.cards, is).text
                   ELSE IF type = "url" THEN Find(data.urls, is).url
                   ELSE IF type = "file" THEN convertToWikilink(Find(data.files, is))
                   ELSE NoVal
    IN  [ otherSideId |-> otherSideId, isBidirectional |-> edge.isBidirectional,
          type |-> type, propVal |-> propVal,
          propLbl |-> IF type = "card" THEN settings.cardDefault
                      ELSE IF type = "url" THEN settings.urlDefault
                      ELSE settings.fileDefault ]

\* The ConnectionProps of one relevant edge: the other side is looked up in
\* cards, then urls, then files, then groups.  propLbl keeps the default of
\* the last collection tried before the match; type "none" stands for the
\* thrown Error('Could not find other side of edge').
connectionProps(file, edge, data, settings) ==
    LET otherSideId == otherSideIdOf(file, edge)
        is(n)  == n.id = otherSideId
        type  == IF Some(data.cards, is) THEN "card"
                 ELSE IF Some(data.urls, is) THEN "url"
                 ELSE IF Some(data.files, is) THEN "file"
                 ELSE IF Some(data.groups, is) THEN "group"
                 ELSE "none"
        defaultLbl == IF type = "card" THEN settings.cardDefault
                      ELSE IF type = "url" THEN settings.urlDefault
                      ELSE settings.fileDefault
        propVal == IF type = "card" THEN Find(data.cards, is).text
                   ELSE IF type = "url" THEN Find(data.urls, is).url
                   ELSE IF type = "file" THEN convertToWikilink(Find(data.files, is))
                   ELSE NoVal
    IN  [ otherSideId |-> otherSideId, isBidirectional |-> edge.isBidirectional,
          type |-> type, propVal |-> propVal,
          propLbl |-> IF edge.label # NoVal THEN edge.label ELSE defaultLbl ]

\* a variant that keeps the entries whose key is the empty string
connectionsKeepEmptyKey(file, data, settings) ==
    Filter(Map(relevantEdges(file, data),
               LAMBDA edge : connectionProps(file, edge, data, settings)),
           LAMBDA newEdge : newEdge.propLbl # NoVal)

\* map over the relevant edges, then drop the entries without a key
connections(file, data, settings) ==
    Filter(Map(relevantEdges(file, data),
               LAMBDA edge : connectionProps(file, edge, data, settings)),
           LAMBDA newEdge : newEdge.propLbl # NoVal /\ newEdge.propLbl # "")

\* edges.filter(edge => edge.type === type).forEach(push)
RECURSIVE pushAll(_, _, _)
pushAll(props, edges, type) ==
    IF edges = <<>> THEN props
    ELSE pushAll(IF Head(edges).type = type
                 THEN pushProp(props, Head(edges).propLbl, Head(edges).propVal)
                 ELSE props,
                 Tail(edges), type)

\* a variant that lists the groups last to first
groupLabelsReversed(file, data) ==
    [i \in 1..Len(file.inGroups) |->
        Find(data.groups,
             LAMBDA g : g.id = file.inGroups[Len(file.inGroups) + 1 - i]).label]

\* labels of the groups that contain the file, in inGroups order
groupLabels(file, data) ==
    Map(file.inGroups, LAMBDA id : Find(data.groups, LAMBDA g : g.id = id).label)

\* a variant whose sentinel guard reads "or" for "and"
FileNodeNullOnEither(file, data, settings) ==
    LET relevant == relevantEdges(file, data)
        threw == Some(relevant,
                      LAMBDA edge : connectionProps(file, edge, data, settings).type = "none")
        edges == connections(file, data, settings)
        p0 == IF Len(file.inGroups) > 0 /\ settings.useGroups
              THEN assignKey(EmptyProps, settings.groupDefault, groupLabels(file, data))
              ELSE EmptyProps
        p1 == IF settings.useCards THEN pushAll(p0, edges, "card") ELSE p0
        p2 == IF settings.useUrls  THEN pushAll(p1, edges, "url")  ELSE p1
        p3 == IF settings.useFiles THEN pushAll(p2, edges, "file") ELSE p2
    IN  IF Len(relevant) = 0 \/ Len(file.inGroups) = 0
        THEN [ filePath |-> file.file, propsOnCanvas |-> NullProps,
               threw |-> FALSE ]
        ELSE IF threw
        THEN [ filePath |-> file.file, propsOnCanvas |-> EmptyProps,
               threw |-> TRUE ]
        ELSE [ filePath |-> file.file, propsOnCanvas |-> p3,
               threw |-> FALSE ]

\* a variant that pushes the values of cards whatever useCards says
FileNodeCardsAlways(file, data, settings) ==
    LET relevant == relevantEdges(file, data)
        threw == Some(relevant,
                      LAMBDA edge : connectionProps(file, edge, data, settings).type = "none")
        edges == connections(file, data, settings)
        p0 == IF Len(file.inGroups) > 0 /\ settings.useGroups
              THEN assignKey(EmptyProps, settings.groupDefault, groupLabels(file, data))
              ELSE EmptyProps
        p1 == pushAll(p0, edges, "card")
        p2 == IF settings.useUrls  THEN pushAll(p1, edges, "url")  ELSE p1
        p3 == IF settings.useFiles THEN pushAll(p2, edges, "file") ELSE p2
    IN  IF Len(relevant) = 0 /\ Len(file.inGroups) = 0
        THEN [ filePath |-> file.file, propsOnCanvas |-> NullProps,
               threw |-> FALSE ]
        ELSE IF threw
        THEN [ filePath |-> file.file, propsOnCanvas |-> EmptyProps,
               threw |-> TRUE ]
        ELSE [ filePath |-> file.file, propsOnCanvas |-> p3,
               threw |-> FALSE ]

\* new FileNode(file, data, settings): filePath and propsOnCanvas, or threw
FileNode(file, data, settings) ==
    LET relevant == relevantEdges(file, data)
        threw == Some(relevant,
                      LAMBDA edge : connectionProps(file, edge, data, settings).type = "none")
        edges == connections(file, data, settings)
        p0 == IF Len(file.inGroups) > 0 /\ settings.useGroups
              THEN assignKey(EmptyProps, settings.groupDefault, groupLabels(file, data))
              ELSE EmptyProps
        p1 == IF settings.useCards THEN pushAll(p0, edges, "card") ELSE p0
        p2 == IF settings.useUrls  THEN pushAll(p1, edges, "url")  ELSE p1
        p3 == IF settings.useFiles THEN pushAll(p2, edges, "file") ELSE p2
    IN  IF Len(relevant) = 0 /\ Len(file.inGroups) = 0
        THEN [ filePath |-> file.file, propsOnCanvas |-> NullProps,
               threw |-> FALSE ]
        ELSE IF threw
        THEN [ filePath |-> file.file, propsOnCanvas |-> EmptyProps,
               threw |-> TRUE ]
        ELSE [ filePath |-> file.file, propsOnCanvas |-> p3,
               threw |-> FALSE ]

(***************************************************************************)
(* pushCanvasDataToNotes after the derivation: de-dupe, merge, and the     *)
(* callback that processFrontMatter runs on a document's front matter.     *)
(***************************************************************************)
\* a variant that puts the values of b before those of a
RECURSIVE mergeKeysPrepend(_, _, _)
mergeKeysPrepend(a, b, keys) ==
    IF keys = <<>> THEN a
    ELSE LET key == Head(keys)
         IN  mergeKeysPrepend(IF hasOwnProperty(a, key)
                              THEN assignKey(a, key, valuesOf(b, key) \o valuesOf(a, key))
                              ELSE assignKey(a, key, valuesOf(b, key)),
                              b, Tail(keys))

\* mergeProps(a, b): the keys of b in order, concatenated under a key that a
\* has, added at the end of a otherwise
RECURSIVE mergeKeys(_, _, _)
mergeKeys(a, b, keys) ==
    IF keys = <<>> THEN a
    ELSE LET key == Head(keys)
         IN  mergeKeys(IF hasOwnProperty(a, key)
                       THEN assignKey(a, key, valuesOf(a, key) \o valuesOf(b, key))
                       ELSE assignKey(a, key, valuesOf(b, key)),
                       b, Tail(keys))

mergeProps(a, b) == mergeKeys(a, b, keysOf(b))

\* the de-dupe loop: skip the null results, keep the first node of a path and
\* merge the later ones into it
RECURSIVE dedupe(_, _)
dedupe(nodes, deduped) ==
    IF nodes = <<>> THEN deduped
    ELSE LET fileNode == Head(nodes)
             same(n)  == n.filePath = fileNode.filePath
         IN  IF fileNode.propsOnCanvas.isNull
             THEN dedupe(Tail(nodes), deduped)
             ELSE IF ~Some(deduped, same)
             THEN dedupe(Tail(nodes), Append(deduped, fileNode))
             ELSE dedupe(Tail(nodes),
                         LET at == CHOOSE i \in 1..Len(deduped) :
                                       /\ same(deduped[i])
                                       /\ \A j \in 1..(i-1) : ~same(deduped[j])
                         IN  [deduped EXCEPT ![at].propsOnCanvas =
                                 mergeProps(deduped[at].propsOnCanvas, fileNode.propsOnCanvas)])

\* frontmatter[key] = vals, which makes the value a list
setList(frontmatter, key, vals) ==
    [assignKey(frontmatter, key, vals) EXCEPT !.scalars = @ \ {key}]

\* a variant that appends every derived value, present or not
writeKeyAppendAll(frontmatter, props, key, over) ==
    IF over \/ ~hasOwnProperty(frontmatter, key)
    THEN setList(frontmatter, key, valuesOf(props, key))
    ELSE setList(frontmatter, key, valuesOf(frontmatter, key) \o valuesOf(props, key))

\* a variant that compares a derived value with the first existing value only
writeKeyChecksFirst(frontmatter, props, key, over) ==
    IF over \/ ~hasOwnProperty(frontmatter, key)
    THEN setList(frontmatter, key, valuesOf(props, key))
    ELSE LET og    == valuesOf(frontmatter, key)
             fresh == Filter(valuesOf(props, key),
                             LAMBDA val : og = <<>> \/ og[1] # val)
         IN  setList(frontmatter, key, og \o fresh)

\* one round of Object.keys(props).forEach in the callback
writeKey(frontmatter, props, key, over) ==
    IF over \/ ~hasOwnProperty(frontmatter, key)
    THEN setList(frontmatter, key, valuesOf(props, key))
    ELSE LET og    == valuesOf(frontmatter, key)
             fresh == Filter(valuesOf(props, key),
                             LAMBDA val : ~Some(og, LAMBDA o : o = val))
         IN  setList(frontmatter, key, og \o fresh)

RECURSIVE writeKeys(_, _, _, _)
writeKeys(frontmatter, props, keys, over) ==
    IF keys = <<>> THEN frontmatter
    ELSE writeKeys(writeKey(frontmatter, props, Head(keys), over), props, Tail(keys), over)

\* the callback handed to processFrontMatter
frontmatterCallback(frontmatter, props, over) ==
    writeKeys(frontmatter, props, keysOf(props), over)

(***************************************************************************)
(* Note -> canvas: getNoteData and buildCanvasContents.                    *)
(***************************************************************************)
\* the list-type properties of a document, without the excluded keys, as a
\* list of one-key objects
getNoteData(frontmatter, settings) ==
    LET excludeKeys == Map(settings.excludeKeys, LAMBDA key : toUpperCase(trim(key)))
    IN  Filter(frontmatter.entries,
               LAMBDA e : /\ ~Some(excludeKeys, LAMBDA exclusion : exclusion = toUpperCase(e.key))
                          /\ e.key \notin frontmatter.scalars)

\* String.prototype.substring(from, to), positions counted from 0
substring(s, from, to) ==
    LET lo == IF from < 0 THEN 0 ELSE IF from > Len(s) THEN Len(s) ELSE from
        hi == IF to < 0 THEN 0 ELSE IF to > Len(s) THEN Len(s) ELSE to
    IN  IF lo <= hi THEN SubSeq(s, lo + 1, hi) ELSE SubSeq(s, hi + 1, lo)

\* String.prototype.indexOf(sep) from position `from` on, -1 if absent
RECURSIVE indexOfFrom(_, _, _)
indexOfFrom(s, sep, from) ==
    IF from + Len(sep) > Len(s) THEN -1
    ELSE IF substring(s, from, from + Len(sep)) = sep THEN from
    ELSE indexOfFrom(s, sep, from + 1)

\* String.prototype.split(sep)
RECURSIVE split(_, _)
split(s, sep) ==
    LET at == indexOfFrom(s, sep, 0)
    IN  IF at = -1 THEN <<s>>
        ELSE <<substring(s, 0, at)>> \o split(substring(s, at + Len(sep), Len(s)), sep)

isGroup(val) == Len(val) > 1

isFile(val) ==
    IF substring(val, 0, 2) # "[[" THEN FALSE
    ELSE IF substring(val, Len(val) - 2, Len(val)) # "]]" THEN FALSE
    ELSE IF Len(split(val, "[[")) # 2 THEN FALSE
    ELSE TRUE

isURL(val) ==
    IF substring(toUpperCase(val), 0, 4) # "HTTP" THEN FALSE
    ELSE IF indexOfFrom(val, "//", 0) = -1 THEN FALSE
    ELSE IF Len(val) < 8 THEN FALSE
    ELSE TRUE

\* vault.getAbstractFileByPath(path) !== null
fileExistsAt(docs, path) == path \in DOMAIN docs /\ docs[path].exists

\* metadataCache.getFirstLinkpathDest(linkpath, sourcePath): the path of the
\* Markdown document with that name, or NoVal for null
getFirstLinkpathDest(docs, linkpath) ==
    IF fileExistsAt(docs, linkpath \o ".md") THEN linkpath \o ".md" ELSE NoVal

firstColumnPosition == 600

\* the running state of buildCanvasContents: the contents so far, curY,
\* nodeCount, edgeCount, and the Error thrown (NoVal while there is none)
BuilderStart(path) ==
    [ nodes |-> << FileData("0", path, NoVal, 0, 0, 400, 400) >>, edges |-> <<>>,
      curY |-> 0, nodeCount |-> 1, edgeCount |-> 0, error |-> NoVal ]

\* a variant whose edge ends at the node after the next one
addEdgeSkippingOne(b, label) ==
    [b EXCEPT !.edgeCount = @ + 1,
              !.edges = Append(@, RawEdge(ToString(b.edgeCount + 1), "0",
                                          ToString(b.nodeCount + 2), label, NoVal, NoVal))]

\* addEdge(label): the edge leaves the root for the node that will get the
\* next id
addEdge(b, label) ==
    [b EXCEPT !.edgeCount = @ + 1,
              !.edges = Append(@, RawEdge(ToString(b.edgeCount + 1), "0",
                                           ToString(b.nodeCount + 1), label, NoVal, NoVal))]

\* the file a link names: the text between the brackets if a file has that
\* path; else the best match of its path part, with the subpath kept apart
linkedFile(docs, val) ==
    LET inner   == substring(val, 2, Len(val) - 2)
        base    == split(inner, "|")[1]
        parts   == split(base, "#")
        found   == getFirstLinkpathDest(docs, parts[1])
        subpath == IF Len(parts) > 1 THEN "#" \o parts[2] ELSE NoVal
    IN  IF fileExistsAt(docs, inner) THEN [file |-> inner, subpath |-> NoVal]
        ELSE [file |-> IF found # NoVal THEN found ELSE inner, subpath |-> subpath]

\* newNode before its type is known: x and y are written as texts
\* (xPos.toString(), curY.toString())
newNodeAt(id, type, xPos, curY, w, h) ==
    [RawNode(id, type, ToString(xPos), ToString(curY), w, h) EXCEPT !.xyText = TRUE]

withLinkedFile(newNode, link) ==
    [newNode EXCEPT !.file = link.file, !.subpath = link.subpath]

\* the node addNode makes for val at (xPos, curY)
newNodeFor(docs, id, val, xPos, curY) ==
    IF isFile(val)
    THEN withLinkedFile(newNodeAt(id, "file", xPos, curY, 400, 400), linkedFile(docs, val))
    ELSE IF isURL(val)
    THEN [newNodeAt(id, "link", xPos, curY, 400, 400) EXCEPT !.url = val]
    ELSE [newNodeAt(id, "text", xPos, curY,
                    IF Len(val) > 15 THEN 400 ELSE 200,
                    IF Len(val) > 15 THEN 200 ELSE 100) EXCEPT !.text = val]

\* the end of addNode: curY moves on in the first column only
pushNode(b, newNode, xPos) ==
    [b EXCEPT !.nodeCount = @ + 1,
              !.curY = IF xPos = firstColumnPosition THEN @ + newNode.height + 50 ELSE @,
              !.nodes = Append(@, newNode)]

\* addNode(val, xPos); val = NoVal (valArr[0] of an empty list) makes
\* isFile throw a TypeError
addNode(docs, b, val, xPos) ==
    IF val = NoVal
    THEN [b EXCEPT !.nodeCount = @ + 1, !.error = "TypeError"]
    ELSE pushNode(b, newNodeFor(docs, ToString(b.nodeCount + 1), val, xPos, b.curY), xPos)

\* newGroup after the member newNode: wider by the member and its margin,
\* and at least 100 higher than the member
growGroup(newGroup, newNode) ==
    [newGroup EXCEPT !.width = @ + newNode.width + 50,
                     !.height = IF newNode.height + 100 > @ THEN newNode.height + 100 ELSE @]

\* one round of the forEach of addGroup; g is [b, xPos, newGroup] and b1 is
\* b after addNode
memberAdded(g, b1) ==
    [ b |-> b1, xPos |-> g.xPos + b1.nodes[Len(b1.nodes)].width + 50,
      newGroup |-> growGroup(g.newGroup, b1.nodes[Len(b1.nodes)]) ]

RECURSIVE addMembers(_, _, _)
addMembers(docs, g, valArr) ==
    IF valArr = <<>> THEN g
    ELSE addMembers(docs, memberAdded(g, addNode(docs, g.b, Head(valArr), g.xPos)),
                    Tail(valArr))

\* the end of addGroup: the group is pushed after its members
closeGroup(g) ==
    [g.b EXCEPT !.curY = @ + g.newGroup.height, !.nodes = Append(@, g.newGroup)]

\* addGroup(key, valArr): the group takes the next id, its members the ids
\* after it
addGroup(docs, b, key, valArr) ==
    closeGroup(addMembers(docs,
                          [ b |-> [b EXCEPT !.nodeCount = @ + 1, !.curY = @ + 50],
                            xPos |-> firstColumnPosition + 50,
                            newGroup |-> GroupNode(ToString(b.nodeCount + 1), key,
                                                   firstColumnPosition, b.curY, 50, 50) ],
                          valArr))

\* the body of propsMap.forEach after addEdge
addProp(docs, b, key, valArr) ==
    IF isGroup(valArr) THEN addGroup(docs, b, key, valArr)
    ELSE addNode(docs, b, IF valArr = <<>> THEN NoVal ELSE valArr[1], firstColumnPosition)

\* propsMap.forEach(...), which an Error ends
RECURSIVE addProps(_, _, _)
addProps(docs, b, propsMap) ==
    IF propsMap = <<>> \/ b.error # NoVal THEN b
    ELSE addProps(docs,
                  addProp(docs, addEdge(b, Head(propsMap).key),
                          Head(propsMap).key, Head(propsMap).vals),
                  Tail(propsMap))

\* the root is centred on the column once the properties are laid out
withRootCentred(b) ==
    [ nodes |-> [b.nodes EXCEPT ![1].y = (b.curY \div 2) - (b.nodes[1].height \div 2)],
      edges |-> b.edges, error |-> b.error ]

\* buildCanvasContents(file, propsMap): [nodes, edges], or the Error
buildCanvasContents(docs, path, propsMap) ==
    IF propsMap = <<>>
    THEN [nodes |-> BuilderStart(path).nodes, edges |-> <<>>, error |-> NoVal]
    ELSE withRootCentred(addProps(docs, BuilderStart(path), propsMap))

(***************************************************************************)
(* Note -> existing canvas: buildConnectionTargets and the loops of        *)
(* pullNotePropertiesToCanvas.  An id drawn from Math.random is "r<n>",    *)
(* n counting the ids drawn so far.  The sides of an edge (determineSides) *)
(* are not kept: nothing reads them.                                       *)
(***************************************************************************)
\* file.file.split('/').pop(), then without its last three characters,
\* between brackets
filenameAsWikiLink(path) ==
    "[[" \o substring(split(path, "/")[Len(split(path, "/"))], 0,
                      Len(split(path, "/")[Len(split(path, "/"))]) - 3) \o "]]"

targetOf(nodeType, node, content, normalizedFileName) ==
    [ nodeType |-> nodeType, id |-> node.id, content |-> content,
      normalizedFileName |-> normalizedFileName,
      x |-> node.x, y |-> node.y, w |-> node.width, h |-> node.height ]

\* cards, then files, then urls
buildConnectionTargets(map) ==
    Map(map.cards, LAMBDA card : targetOf("card", card, card.text, NoVal))
    \o Map(map.files, LAMBDA file : targetOf("file", file, file.file, filenameAsWikiLink(file.file)))
    \o Map(map.urls, LAMBDA url : targetOf("url", url, url.url, NoVal))

\* the predicate of connectionTargets.find
isTargetFor(target, val) ==
    target.content = val
        \/ (target.normalizedFileName # NoVal /\ target.normalizedFileName = val)

edgeAlreadyExists(edges, fromId, toId, labeled) ==
    Some(edges, LAMBDA edge : edge.fromNode = fromId /\ edge.toNode = toId /\ edge.label = labeled)

randomId(n) == "r" \o ToString(n)

\* the new node for a value without a target, next to the node pulled from
\* and below the nodes built so far; a link that resolves to no file becomes
\* a card
newPulledNode(docs, id, node, key, val, built) ==
    LET at(type) == [RawNode(id, type, node.x + node.width + 20,
                             node.y + (node.height + 20) * built,
                             node.width, node.height) EXCEPT !.label = key]
    IN  IF isFile(val) /\ getFirstLinkpathDest(docs, substring(val, 2, Len(val) - 2)) # NoVal
        THEN [at("file") EXCEPT
                !.file = getFirstLinkpathDest(docs, substring(val, 2, Len(val) - 2))]
        ELSE [at("text") EXCEPT !.text = val]

\* the running state of a pull: edgesToBuild, nodesToBuild and the ids drawn
withNewNode(p, newNode, fromId, key) ==
    [ edgesToBuild |-> Append(p.edgesToBuild,
                              RawEdge(randomId(p.ids + 2), fromId, newNode.id, key, NoVal, NoVal)),
      nodesToBuild |-> Append(p.nodesToBuild, newNode),
      ids |-> p.ids + 2 ]

withNewEdge(p, fromId, toId, key) ==
    [p EXCEPT !.edgesToBuild = Append(@, RawEdge(randomId(p.ids + 1), fromId, toId, key,
                                                 NoVal, NoVal)),
              !.ids = @ + 1]

\* a variant that builds a node for an unmatched value in existing-only
\* mode too
pullValueAlwaysBuilds(docs, visibleEdges, targets, existingOnly, p, node, key, val) ==
    IF ~Some(targets, LAMBDA target : isTargetFor(target, val))
    THEN withNewNode(p, newPulledNode(docs, randomId(p.ids + 1), node, key, val,
                                      Len(p.nodesToBuild)),
                     node.id, key)
    ELSE IF edgeAlreadyExists(visibleEdges, node.id,
                              Find(targets, LAMBDA target : isTargetFor(target, val)).id, key)
    THEN p
    ELSE withNewEdge(p, node.id, Find(targets, LAMBDA target : isTargetFor(target, val)).id, key)

\* the body of vals.forEach
pullValue(docs, visibleEdges, targets, existingOnly, p, node, key, val) ==
    IF ~Some(targets, LAMBDA target : isTargetFor(target, val))
    THEN IF existingOnly THEN p
         ELSE withNewNode(p, newPulledNode(docs, randomId(p.ids + 1), node, key, val,
                                           Len(p.nodesToBuild)),
                          node.id, key)
    ELSE IF edgeAlreadyExists(visibleEdges, node.id,
                              Find(targets, LAMBDA target : isTargetFor(target, val)).id, key)
    THEN p
    ELSE withNewEdge(p, node.id, Find(targets, LAMBDA target : isTargetFor(target, val)).id, key)

RECURSIVE pullValues(_, _, _, _, _, _, _, _)
pullValues(docs, visibleEdges, targets, existingOnly, p, node, key, vals) ==
    IF vals = <<>> THEN p
    ELSE pullValues(docs, visibleEdges, targets, existingOnly,
                    pullValue(docs, visibleEdges, targets, existingOnly, p, node, key, Head(vals)),
                    node, key, Tail(vals))

RECURSIVE pullProps(_, _, _, _, _, _, _)
pullProps(docs, visibleEdges, targets, existingOnly, p, node, noteProps) ==
    IF noteProps = <<>> THEN p
    ELSE pullProps(docs, visibleEdges, targets, existingOnly,
                   pullValues(docs, visibleEdges, targets, existingOnly, p, node,
                              Head(noteProps).key, Head(noteProps).vals),
                   node, Tail(noteProps))

\* getNoteData of the document of a node; no cache entry, no properties
notePropsOf(docs, node, settings) ==
    IF fileExistsAt(docs, node.file) THEN getNoteData(docs[node.file].frontmatter, settings)
    ELSE <<>>

RECURSIVE pullNodes(_, _, _, _, _, _, _)
pullNodes(docs, settings, visibleEdges, targets, existingOnly, p, nodes) ==
    IF nodes = <<>> THEN p
    ELSE pullNodes(docs, settings, visibleEdges, targets, existingOnly,
                   pullProps(docs, visibleEdges, targets, existingOnly, p, Head(nodes),
                             notePropsOf(docs, Head(nodes), settings)),
                   Tail(nodes))

\* nodes.push(...nodesToBuild), edges.push(...edgesToBuild)
pulledInto(visibleCanvasData, p) ==
    [ error |-> NoVal,
      saved |-> [ nodes |-> visibleCanvasData.nodes \o p.nodesToBuild,
                  edges |-> visibleCanvasData.edges \o p.edgesToBuild ],
      ids |-> p.ids ]

pullWithMap(docs, settings, visibleCanvasData, canvasMap, nodesToPullFrom, existingOnly, ids) ==
    IF canvasMap.error # NoVal
    THEN [error |-> canvasMap.error, saved |-> visibleCanvasData, ids |-> ids]
    ELSE pulledInto(visibleCanvasData,
                    pullNodes(docs, settings, visibleCanvasData.edges,
                              buildConnectionTargets(canvasMap), existingOnly,
                              [edgesToBuild |-> <<>>, nodesToBuild |-> <<>>, ids |-> ids],
                              nodesToPullFrom))

\* The run as a whole: the canvas to save and the ids drawn, or the error of
\* getCanvasMap, after which nothing is saved.  visibleCanvasData is parsed
\* from fileView.data, the map is made from the file as getCanvasData reads it.
pullNotePropertiesToCanvas(docs, settings, visibleCanvasData, canvasData, nodesToPullFrom, existingOnly, ids) ==
    pullWithMap(docs, settings, visibleCanvasData, getCanvasMap(canvasData),
                nodesToPullFrom, existingOnly, ids)

(***************************************************************************)
(* The text of a document and its backlinks section.  A document is read   *)
(* as one string: the front matter block, if it has entries, then the      *)
(* body.  Indexes are JavaScript's, counted from 0.                        *)
(***************************************************************************)
RECURSIVE join(_)
join(strings) == IF strings = <<>> THEN "" ELSE Head(strings) \o join(Tail(strings))

\* the value of a list item or scalar as the front matter block shows it
yamlValue(v) == IF substring(v, 0, 1) = "[" THEN "\"" \o v \o "\"" ELSE v

yamlEntry(frontmatter, e) ==
    IF e.key \in frontmatter.scalars /\ e.vals # <<>>
    THEN e.key \o ": " \o yamlValue(e.vals[1]) \o "\n"
    ELSE IF e.vals = <<>> THEN e.key \o ": []\n"
    ELSE e.key \o ":\n" \o join(Map(e.vals, LAMBDA v : "  - " \o yamlValue(v) \o "\n"))

frontmatterText(frontmatter) ==
    IF frontmatter.entries = <<>> THEN ""
    ELSE "---\n" \o join(Map(frontmatter.entries, LAMBDA e : yamlEntry(frontmatter, e)))
            \o "---\n"

\* await this.app.vault.read(file)
read(doc) == frontmatterText(doc.frontmatter) \o doc.body

\* await this.app.vault.modify(file, newContent), for a newContent made from
\* what was read of doc: the front matter block of the text is the one read
modify(doc, newContent) ==
    [doc EXCEPT !.body =
        substring(newContent, Len(frontmatterText(doc.frontmatter)), Len(newContent))]

\* String.prototype.includes
includes(s, part) == indexOfFrom(s, part, 0) # -1

\* ^ of a multi-line regular expression
isLineStart(s, i) == i = 0 \/ substring(s, i - 1, i) = "\n"

\* \s*$ of a multi-line regular expression matches from i on
RECURSIVE blankToLineEnd(_, _)
blankToLineEnd(s, i) ==
    IF i >= Len(s) \/ substring(s, i, i + 1) = "\n" THEN TRUE
    ELSE IF isSpace(substring(s, i, i + 1)) THEN blankToLineEnd(s, i + 1)
    ELSE FALSE

\* content.match(headingRegex) is not null: some line is the heading
headingMatch(content, heading) ==
    \E i \in 0..Len(content) :
        /\ isLineStart(content, i)
        /\ substring(content, i, i + Len(heading)) = heading
        /\ i + Len(heading) <= Len(content)
        /\ blankToLineEnd(content, i + Len(heading))

\* the end of the run of "#" that starts at i
RECURSIVE hashesEnd(_, _)
hashesEnd(s, i) == IF substring(s, i, i + 1) = "#" THEN hashesEnd(s, i + 1) ELSE i

\* s.match(/^#+\s/m): the index of the match, -1 for null
RECURSIVE nextHeadingFrom(_, _)
nextHeadingFrom(s, i) ==
    IF i >= Len(s) THEN -1
    ELSE IF /\ isLineStart(s, i)
            /\ hashesEnd(s, i) > i
            /\ hashesEnd(s, i) < Len(s)
            /\ isSpace(substring(s, hashesEnd(s, i), hashesEnd(s, i) + 1))
    THEN i
    ELSE nextHeadingFrom(s, i + 1)

\* headingRegex has the g flag, so the array content.match returns has no
\* index: headingIndex is undefined, headingIndex + headingMatch[0].length is
\* NaN, and content.substring(NaN) is the whole content
afterHeadingOf(content) == substring(content, 0, Len(content))

\* content.substring(0, headingIndex) with headingIndex undefined: the end
\* defaults to the length
beforeHeadingOf(content) == substring(content, 0, Len(content))

sectionEndIndex(afterHeading) ==
    IF nextHeadingFrom(afterHeading, 0) # -1 THEN nextHeadingFrom(afterHeading, 0)
    ELSE Len(afterHeading)

\* backlinks joined as list lines; every link of the push run is a wikilink
RECURSIVE formattedBacklinks(_)
formattedBacklinks(links) ==
    IF links = <<>> THEN ""
    ELSE IF Len(links) = 1 THEN "- " \o links[1]
    ELSE "- " \o links[1] \o "\n" \o formattedBacklinks(Tail(links))

\* updateBacklinksInFile: the new content for the content read
updatedBacklinks(content, heading, links) ==
    IF headingMatch(content, heading)
    THEN beforeHeadingOf(content)
            \o heading \o "\n" \o formattedBacklinks(links) \o "\n"
            \o (IF nextHeadingFrom(afterHeadingOf(content), 0) # -1 THEN "\n" ELSE "")
            \o substring(afterHeadingOf(content), sectionEndIndex(afterHeadingOf(content)),
                         Len(content))
    ELSE trimEnd(content) \o "\n\n" \o heading \o "\n" \o formattedBacklinks(links) \o "\n"

\* addSingleBacklink: the new content for the content read; the content
\* itself when the function returns without writing
addSingleBacklink(content, heading, name) ==
    IF headingMatch(content, heading)
    THEN IF includes(substring(afterHeadingOf(content), 0,
                               sectionEndIndex(afterHeadingOf(content))),
                     "[[" \o name \o "]]")
         THEN content
         ELSE beforeHeadingOf(content)
                \o heading \o "\n"
                \o (IF trim(substring(afterHeadingOf(content), 0,
                                      sectionEndIndex(afterHeadingOf(content)))) # ""
                    THEN trim(substring(afterHeadingOf(content), 0,
                                        sectionEndIndex(afterHeadingOf(content))))
                            \o "\n" \o "- [[" \o name \o "]]"
                    ELSE "- [[" \o name \o "]]")
                \o "\n"
                \o (IF nextHeadingFrom(afterHeadingOf(content), 0) # -1 THEN "\n" ELSE "")
                \o substring(afterHeadingOf(content), sectionEndIndex(afterHeadingOf(content)),
                             Len(content))
    ELSE trimEnd(content) \o "\n\n" \o heading \o "\n" \o "- [[" \o name \o "]]" \o "\n"

\* \s* from i on: the index of the first character that is no white space
RECURSIVE skipSpace(_, _)
skipSpace(s, i) ==
    IF i < Len(s) /\ isSpace(substring(s, i, i + 1)) THEN skipSpace(s, i + 1) ELSE i

\* \s*$ of a multi-line regular expression over the white space from..to:
\* the end of the text, else the last line end in it, else -1
lineEndIn(s, from, to) ==
    IF to >= Len(s) THEN Len(s)
    ELSE IF \E j \in from..(to - 1) : substring(s, j, j + 1) = "\n"
    THEN CHOOSE j \in from..(to - 1) :
            /\ substring(s, j, j + 1) = "\n"
            /\ \A k \in (j + 1)..(to - 1) : substring(s, k, k + 1) # "\n"
    ELSE -1

\* linkLineRegex at i: the end of the match, -1 for none
linkLineEnd(s, i, name) ==
    IF ~isLineStart(s, i) \/ substring(s, skipSpace(s, i), skipSpace(s, i) + 1) # "-" THEN -1
    ELSE IF substring(s, skipSpace(s, skipSpace(s, i) + 1),
                      skipSpace(s, skipSpace(s, i) + 1) + Len(name) + 4)
                # "[[" \o name \o "]]"
    THEN -1
    ELSE lineEndIn(s, skipSpace(s, skipSpace(s, i) + 1) + Len(name) + 4,
                   skipSpace(s, skipSpace(s, skipSpace(s, i) + 1) + Len(name) + 4))

\* s.replace(linkLineRegex, '') from i on
RECURSIVE replaceLinkLines(_, _, _)
replaceLinkLines(s, i, name) ==
    IF i >= Len(s) THEN ""
    ELSE IF linkLineEnd(s, i, name) # -1 THEN replaceLinkLines(s, linkLineEnd(s, i, name), name)
    ELSE substring(s, i, i + 1) \o replaceLinkLines(s, i + 1, name)

\* sectionContent.replace(linkLineRegex, '').trim()
updatedSection(content, name) ==
    trim(replaceLinkLines(substring(afterHeadingOf(content), 0,
                                    sectionEndIndex(afterHeadingOf(content))), 0, name))

\* removeSingleBacklink: the new content for the content read; the content
\* itself when the function returns without writing
removeSingleBacklink(content, heading, name) ==
    IF ~headingMatch(content, heading) THEN content
    ELSE IF updatedSection(content, name) = ""
    THEN trimEnd(beforeHeadingOf(content))
            \o (IF trimStart(substring(afterHeadingOf(content),
                                       sectionEndIndex(afterHeadingOf(content)),
                                       Len(content))) # ""
                THEN "\n\n" \o trimStart(substring(afterHeadingOf(content),
                                                    sectionEndIndex(afterHeadingOf(content)),
                                                    Len(content)))
                ELSE "")
    ELSE beforeHeadingOf(content)
            \o heading \o "\n" \o updatedSection(content, name)
            \o (IF nextHeadingFrom(afterHeadingOf(content), 0) # -1 THEN "\n\n" ELSE "")
            \o substring(afterHeadingOf(content), sectionEndIndex(afterHeadingOf(content)),
                         Len(content))

\* TFile.basename: the name of the file without folder and extension
basename(path) == split(split(path, "/")[Len(split(path, "/"))], ".")[1]

\* addBacklink(file, link): backlinksMap as the list of its entries in
\* insertion order, each a file with the list of its distinct links
addBacklink(map, file, link) ==
    IF Some(map, LAMBDA m : m.file = file)
    THEN Map(map, LAMBDA m : IF m.file = file /\ ~Some(m.links, LAMBDA l : l = link)
                              THEN [m EXCEPT !.links = Append(@, link)]
                              ELSE m)
    ELSE Append(map, [file |-> file, links |-> <<link>>])

\* the body of data.edges.forEach in the backlinks stage of a push run
addBacklinksOfEdge(map, docs, files, edge) ==
    IF /\ Some(files, LAMBDA f : f.id = edge.fromNode)
       /\ Some(files, LAMBDA f : f.id = edge.toNode)
       /\ fileExistsAt(docs, Find(files, LAMBDA f : f.id = edge.fromNode).file)
       /\ fileExistsAt(docs, Find(files, LAMBDA f : f.id = edge.toNode).file)
    THEN IF edge.isBidirectional
         THEN addBacklink(
                addBacklink(map, Find(files, LAMBDA f : f.id = edge.fromNode).file,
                    "[[" \o basename(Find(files, LAMBDA f : f.id = edge.toNode).file) \o "]]"),
                Find(files, LAMBDA f : f.id = edge.toNode).file,
                "[[" \o basename(Find(files, LAMBDA f : f.id = edge.fromNode).file) \o "]]")
         ELSE addBacklink(map, Find(files, LAMBDA f : f.id = edge.fromNode).file,
                "[[" \o basename(Find(files, LAMBDA f : f.id = edge.toNode).file) \o "]]")
    ELSE map

RECURSIVE addBacklinksOfEdges(_, _, _, _)
addBacklinksOfEdges(map, docs, files, edges) ==
    IF edges = <<>> THEN map
    ELSE addBacklinksOfEdges(addBacklinksOfEdge(map, docs, files, Head(edges)), docs, files,
                             Tail(edges))

\* backlinksMap when the loop over it starts
backlinksMapOf(data, docs, settings) ==
    IF settings.useBacklinks THEN addBacklinksOfEdges(<<>>, docs, data.files, data.edges)
    ELSE <<>>

(***************************************************************************)
(* The 'modify' handler.  lastCanvasEdges and currentEdges are Maps by     *)
(* edge id; the ids of a canvas are distinct, so a Map is the list of the  *)
(* edges in the order of the file.                                         *)
(***************************************************************************)
\* Map.prototype.has
hasId(edges, id) == Some(edges, LAMBDA e : e.id = id)

\* currentEdges entries that lastCanvasEdges does not have
addedEdges(currentEdges, last) == Filter(currentEdges, LAMBDA e : ~hasId(last, e.id))

\* lastCanvasEdges entries that currentEdges does not have
removedEdges(currentEdges, last) == Filter(last, LAMBDA e : ~hasId(currentEdges, e.id))

\* the body of either loop for one edge: the call it makes, if it makes one
backlinkCall(op, canvasData, docs, edge) ==
    IF /\ Some(canvasData.nodes, LAMBDA n : n.id = edge.fromNode)
       /\ Some(canvasData.nodes, LAMBDA n : n.id = edge.toNode)
       /\ Find(canvasData.nodes, LAMBDA n : n.id = edge.fromNode).type = "file"
       /\ Find(canvasData.nodes, LAMBDA n : n.id = edge.toNode).type = "file"
       /\ fileExistsAt(docs, Find(canvasData.nodes, LAMBDA n : n.id = edge.fromNode).file)
       /\ fileExistsAt(docs, Find(canvasData.nodes, LAMBDA n : n.id = edge.toNode).file)
    THEN << [ op |-> op, edge |-> edge.id,
              fromFile |-> Find(canvasData.nodes, LAMBDA n : n.id = edge.fromNode).file,
              toFile |-> Find(canvasData.nodes, LAMBDA n : n.id = edge.toNode).file,
              isBidirectional |-> edge.fromEnd = "arrow" \/ edge.toEnd = "none" ] >>
    ELSE <<>>

RECURSIVE backlinkCalls(_, _, _, _)
backlinkCalls(op, canvasData, docs, edges) ==
    IF edges = <<>> THEN <<>>
    ELSE backlinkCall(op, canvasData, docs, Head(edges))
            \o backlinkCalls(op, canvasData, docs, Tail(edges))

\* addSingleBacklink / removeSingleBacklink on the vault
singleBacklink(op, docs, settings, file, linked) ==
    IF ~settings.useBacklinks THEN docs
    ELSE [docs EXCEPT ![file] =
            modify(@, IF op = "add"
                      THEN addSingleBacklink(read(@), settings.backlinksHeading,
                                             basename(linked))
                      ELSE removeSingleBacklink(read(@), settings.backlinksHeading,
                                                basename(linked)))]

\* addBacklinkBetweenFiles / removeBacklinkBetweenFiles on the vault
backlinkBetweenFiles(docs, settings, call) ==
    IF ~settings.useBacklinks THEN docs
    ELSE IF call.isBidirectional
    THEN singleBacklink(call.op,
                        singleBacklink(call.op, docs, settings, call.fromFile, call.toFile),
                        settings, call.toFile, call.fromFile)
    ELSE singleBacklink(call.op, docs, settings, call.fromFile, call.toFile)

RECURSIVE backlinksBetweenFiles(_, _, _)
backlinksBetweenFiles(docs, settings, cs) ==
    IF cs = <<>> THEN docs
    ELSE backlinksBetweenFiles(backlinkBetweenFiles(docs, settings, Head(cs)), settings, Tail(cs))

(***************************************************************************)
(* The canvases the model reads.                                           *)
(*                                                                         *)
(* Every canvas has the file nodes f1 (a.md) and f2 (b.md), the card k1,   *)
(* the url u1, the groups g1 and g2 and a node x1 of a type the plugin     *)
(* does not know.  The id "zz" names no node at all.  g1 covers            *)
(* [1,3]x[1,3] and g2 covers [2,4]x[0,4], so a 1x1 node at x = 1 can be in *)
(* g1 only, at x = 2 in both and at x = 3 in g2 only.                      *)
(***************************************************************************)
Grid  == 0..GridMax
Sizes == {1, 2}

\* place: where f1, f2, k1 and u1 sit (<<x, y, width, height>>), the label of
\* g1, the subpath of f2, and whether g2 precedes g1 in the file
Nodes(place) ==
    LET f1 == FileData("f1", "a.md", NoVal,
                       place.f1[1], place.f1[2], place.f1[3], place.f1[4])
        f2 == FileData("f2", "b.md", place.sub,
                       place.f2[1], place.f2[2], place.f2[3], place.f2[4])
        k1 == CardNode("k1", "hello", place.k1[1], place.k1[2], place.k1[3], place.k1[4])
        u1 == UrlNode("u1", "https://x.org", place.u1[1], place.u1[2], place.u1[3], place.u1[4])
        g1 == GroupNode("g1", place.g1label, 1, 1, 2, 2)
        g2 == GroupNode("g2", "Zed", 2, 0, 2, 4)
        x1 == RawNode("x1", "other", 1, 1, 1, 1)
    IN  IF place.swap
        THEN <<f1, g2, k1, f2, g1, u1, x1>>
        ELSE <<f1, g1, k1, f2, u1, g2, x1>>

\* the i-th edge of a canvas gets the id e<i>
WithIds(edges) == [i \in 1..Len(edges) |-> [edges[i] EXCEPT !.id = "e" \o ToString(i)]]

Canvas(place, edges) == [nodes |-> Nodes(place), edges |-> WithIds(edges)]

\* Family 1: f1 (any size) and k1 anywhere on the grid, one unlabeled edge
\* from f2 to g1
GridPlaces ==
    { [ f1 |-> <<x, y, w, h>>, f2 |-> <<0, 0, 1, 1>>, k1 |-> <<kx, ky, 1, 1>>,
        u1 |-> <<1, 2, 1, 1>>, g1label |-> "Inbox", sub |-> NoVal, swap |-> sw ] :
        x \in Grid, y \in Grid, w \in Sizes, h \in Sizes, kx \in Grid, ky \in Grid,
        sw \in BOOLEAN }

GridCanvases ==
    { Canvas(place, << RawEdge("", "f2", "g1", NoVal, NoVal, NoVal) >>) : place \in GridPlaces }

\* Four fixed layouts for the canvases whose edges vary:
\*   g1 = {f1, k1, u1}, g2 = {u1}; g1 = {f1}, g2 = {f1, f2}, g1 unlabeled, g2 first;
\*   g1 = {f2}, g2 = {k1}, g1 labeled ""; g1 = {}, g2 = {k1, u1}
Layouts ==
    { [ f1 |-> <<1, 1, 1, 1>>, f2 |-> <<0, 0, 1, 1>>, k1 |-> <<1, 2, 1, 1>>,
        u1 |-> <<2, 2, 1, 1>>, g1label |-> "Inbox", sub |-> NoVal, swap |-> FALSE ],
      [ f1 |-> <<2, 1, 1, 1>>, f2 |-> <<3, 0, 1, 1>>, k1 |-> <<0, 0, 1, 1>>,
        u1 |-> <<0, 3, 1, 1>>, g1label |-> NoVal, sub |-> "#h", swap |-> TRUE ],
      [ f1 |-> <<0, 0, 1, 1>>, f2 |-> <<1, 1, 1, 1>>, k1 |-> <<3, 3, 1, 1>>,
        u1 |-> <<0, 3, 1, 1>>, g1label |-> "", sub |-> NoVal, swap |-> FALSE ],
      [ f1 |-> <<0, 0, 1, 1>>, f2 |-> <<0, 1, 1, 1>>, k1 |-> <<3, 0, 1, 1>>,
        u1 |-> <<3, 1, 1, 1>>, g1label |-> "Inbox", sub |-> NoVal, swap |-> FALSE ] }

\* Family 2: any single edge
FromIds == {"f1", "f2", "k1", "g1", "zz"}
ToIds   == {"f1", "f2", "k1", "u1", "g1", "g2", "x1"}
Labels  == {NoVal, "", "topic", "groups"}
Ends    == {NoVal, "none", "arrow"}

SingleEdges ==
    { RawEdge("", from, to, label, NoVal, toEnd) :
        from \in FromIds, to \in ToIds, label \in Labels, toEnd \in {NoVal, "none"} }

SingleCanvases == { Canvas(place, <<edge>>) : place \in Layouts, edge \in SingleEdges }

\* Family 3: every combination of arrow ends on an edge between f1 and f2
EndEdges ==
    { RawEdge("", from, to, label, fromEnd, toEnd) :
        from \in {"f1", "k1"}, to \in {"f2"}, label \in {NoVal, "topic"},
        fromEnd \in Ends, toEnd \in Ends }

EndCanvases == { Canvas(place, <<edge>>) : place \in Layouts, edge \in EndEdges }

\* Family 4: up to MaxEdges edges drawn from a palette
EdgePalette ==
    { RawEdge("", "f1", "k1", NoVal,    NoVal, NoVal),
      RawEdge("", "f1", "k1", "groups", NoVal, NoVal),
      RawEdge("", "f1", "u1", "topic",  NoVal, NoVal),
      RawEdge("", "f1", "f2", NoVal,    NoVal, "none"),
      RawEdge("", "f2", "f1", "topic",  NoVal, NoVal),
      RawEdge("", "k1", "f1", NoVal,    "arrow", NoVal),
      RawEdge("", "f1", "g1", "topic",  NoVal, NoVal),
      RawEdge("", "f2", "g1", NoVal,    NoVal, NoVal),
      RawEdge("", "f2", "g1", NoVal,    NoVal, "none"),
      RawEdge("", "f1", "g2", NoVal,    NoVal, NoVal),
      RawEdge("", "g1", "k1", "topic",  NoVal, NoVal),
      RawEdge("", "g2", "g1", NoVal,    NoVal, NoVal),
      RawEdge("", "zz", "k1", NoVal,    NoVal, NoVal) }

EdgeLists == UNION { [1..n -> EdgePalette] : n \in 0..MaxEdges }

ListCanvases == { Canvas(place, edges) : place \in Layouts, edges \in EdgeLists }

\* the inputs of a run: a canvas file and the settings
Inputs ==
    ((GridCanvases \cup EndCanvases \cup ListCanvases) \X {AllOn})
        \cup (SingleCanvases \X AllSettings)

(***************************************************************************)
(* The vault.  A document is [exists, frontmatter, body]; its front matter *)
(* is an ordered map like propsOnCanvas plus the set of the keys whose     *)
(* value is a scalar and not a list (the scalar s is kept as the list      *)
(* <<s>>); its body is the text after the front matter block.              *)
(***************************************************************************)
Paths == {"a.md", "b.md", "c.png"}

FrontMatter(entries, scalars) == [isNull |-> FALSE, entries |-> entries, scalars |-> scalars]

NoFrontMatter == FrontMatter(<<>>, {})

\* a document without a body
Doc(frontmatter) == [exists |-> TRUE, frontmatter |-> frontmatter, body |-> ""]

DocWith(frontmatter, body) == [exists |-> TRUE, frontmatter |-> frontmatter, body |-> body]

Entry(key, vals) == [key |-> key, vals |-> vals]

\* TFile.extension
extensionOf(path) == IF path \in {"a.md", "b.md"} THEN "md" ELSE "png"

VaultPlain ==
    [ p \in Paths |->
        IF p = "a.md" THEN Doc(FrontMatter(<< Entry("topic", <<"hello", "x">>) >>, {}))
        ELSE Doc(NoFrontMatter) ]

(***************************************************************************)
(* The push run (pushCanvasDataToNotes), up to the derived property maps.  *)
(***************************************************************************)
VARIABLES
    canvas,     \* the canvas file: [nodes, edges]
    settings,   \* this.settings
    pc,         \* position of the run: "start", "mapped", "derived", "failed"
    data,       \* the CanvasMap returned by getCanvasMap
    fileNodes,  \* one FileNode per entry of data.files
    thrown,     \* message of the Error that ended the run, or NoVal
    overwrite,  \* the overwrite argument of the run
    onlyUpdateNoteAtPath,  \* the path argument of the run, or NoVal
    vault,      \* the documents of the vault, by path: [exists, frontmatter]
    pending,    \* the processFrontMatter callbacks issued and not yet run
    listTypeProps,   \* createCanvasFromNote: what getNoteData returned
    canvasContents,  \* createCanvasFromNote: what buildCanvasContents returned
    pulls,      \* the number of pull runs that have saved the canvas
    pullArgs,   \* the arguments of the last pull run
    idCount,    \* the number of ids drawn from Math.random so far
    viewData,   \* fileView.data: the canvas as the open view holds it
    runs,       \* the push runs that have ended
    backlinksMap,  \* push run: the entries of backlinksMap not yet written
    content,    \* push run: what updateBacklinksInFile has read, or NoVal
    lastCanvasEdges,  \* this.lastCanvasEdges: the edges in insertion order
    canvas2,    \* a second canvas file of the vault
    handlers,   \* the 'modify' handlers that have not finished
    calls,      \* the calls of add/removeBacklinkBetweenFiles made so far
    written     \* the edges of the open canvas at file-open and of every write since

pushVars == <<overwrite, onlyUpdateNoteAtPath, vault, pending>>

noteVars == <<listTypeProps, canvasContents>>

pullVars == <<pulls, pullArgs, idCount, viewData>>

stageVars == <<runs, backlinksMap, content>>

watchVars == <<lastCanvasEdges, canvas2, handlers, calls, written>>

vars == <<canvas, settings, pc, data, fileNodes, thrown, pushVars, noteVars, pullVars, stageVars,
          watchVars>>

NoCanvas == [nodes |-> <<>>, edges |-> <<>>]

NoPull == [nodesToPullFrom |-> <<>>, existingOnly |-> FALSE]

\* the variables of the runs that do not take place
NoNoteRun == listTypeProps = <<>> /\ canvasContents = NoCanvas

NoPullRun == pulls = 0 /\ pullArgs = NoPull /\ idCount = 0 /\ viewData = NoCanvas

\* no content read
NoContent == [exists |-> FALSE, frontmatter |-> NoFrontMatter, body |-> ""]

NoStageRun == runs = 0 /\ backlinksMap = <<>> /\ content = NoContent

NoWatchRun ==
    /\ lastCanvasEdges = <<>>
    /\ canvas2 = NoCanvas
    /\ handlers = <<>>
    /\ calls = <<>>
    /\ written = <<>>

NoMap == [ error |-> NoVal, cards |-> <<>>, files |-> <<>>, urls |-> <<>>,
           groups |-> <<>>, edges |-> <<>> ]

Init ==
    /\ \E in \in Inputs : canvas = in[1] /\ settings = in[2]
    /\ pc = "start"
    /\ data = NoMap
    /\ fileNodes = <<>>
    /\ thrown = NoVal
    /\ overwrite = FALSE
    /\ onlyUpdateNoteAtPath = NoVal
    /\ vault = VaultPlain
    /\ pending = <<>>
    /\ NoNoteRun
    /\ NoStageRun
    /\ NoWatchRun
    /\ NoPullRun

\* let data = await SemanticCanvasPlugin.getCanvasMap(canvasFile)
GetCanvasMap ==
    /\ pc = "start"
    /\ LET map == getCanvasMap(canvas)
       IN  IF map.error # NoVal
           THEN /\ pc' = "failed"
                /\ thrown' = map.error
                /\ data' = data
           ELSE /\ pc' = "mapped"
                /\ thrown' = thrown
                /\ data' = map
    /\ UNCHANGED <<canvas, settings, fileNodes, pushVars, noteVars, stageVars, pullVars, watchVars>>

\* a variant that has written the map of the first file node by the time a
\* later constructor throws
NewFileNodesWriteFirst ==
    /\ pc = "mapped"
    /\ LET nodes == Map(data.files, LAMBDA file : FileNode(file, data, settings))
       IN  IF Some(nodes, LAMBDA n : n.threw)
           THEN /\ pc' = "failed"
                /\ thrown' = "Could not find other side of edge"
                /\ fileNodes' = fileNodes
                /\ vault' = IF ~nodes[1].threw /\ ~nodes[1].propsOnCanvas.isNull
                            THEN [vault EXCEPT ![nodes[1].filePath].frontmatter =
                                    frontmatterCallback(@, nodes[1].propsOnCanvas, overwrite)]
                            ELSE vault
           ELSE /\ pc' = "derived"
                /\ thrown' = thrown
                /\ fileNodes' = nodes
                /\ vault' = vault
    /\ UNCHANGED <<canvas, settings, data, overwrite, onlyUpdateNoteAtPath, pending,
                   noteVars, stageVars, pullVars, watchVars>>

\* let fileNodes = data.files.map(file => new FileNode(file, data, settings, app))
NewFileNodes ==
    /\ pc = "mapped"
    /\ LET nodes == Map(data.files, LAMBDA file : FileNode(file, data, settings))
       IN  IF Some(nodes, LAMBDA n : n.threw)
           THEN /\ pc' = "failed"
                /\ thrown' = "Could not find other side of edge"
                /\ fileNodes' = fileNodes
           ELSE /\ pc' = "derived"
                /\ thrown' = thrown
                /\ fileNodes' = nodes
    /\ UNCHANGED <<canvas, settings, data, pushVars, noteVars, stageVars, pullVars, watchVars>>

Next == GetCanvasMap \/ NewFileNodes

Spec == Init /\ [][Next]_vars

(***************************************************************************)
(* The push run continued: the writes into the front matter.               *)
(*                                                                         *)
(* The canvases of these runs show the document a.md up to three times:    *)
(* f1 (a.md), f2 (a.md, b.md or the image c.png) and f3 (a.md, inside the  *)
(* group g1), next to the cards k1 and k2.                                 *)
(***************************************************************************)
PushNodes(p2) ==
    << FileData("f1", "a.md", NoVal, 0, 0, 1, 1),
       CardNode("k1", "hello", 0, 2, 1, 1),
       FileData("f2", p2, NoVal, 0, 1, 1, 1),
       GroupNode("g1", "Inbox", 1, 1, 2, 2),
       FileData("f3", "a.md", NoVal, 1, 1, 1, 1),
       CardNode("k2", "world", 0, 3, 1, 1) >>

PushPalette ==
    { RawEdge("", from, to, label, NoVal, NoVal) :
        from \in {"f1", "f2", "f3"}, to \in {"k1", "k2"}, label \in {"topic", "kind"} }
    \cup { RawEdge("", "f1", "k1", "tags", NoVal, NoVal),
           RawEdge("", "f3", "k2", "Tags", NoVal, NoVal),
           RawEdge("", "f1", "zz", "topic", NoVal, NoVal),
           RawEdge("", "zz", "f3", "topic", NoVal, "none") }

PushEdgeLists == UNION { [1..n -> PushPalette] : n \in 0..MaxEdges }

PushCanvas(p2, edges) == [nodes |-> PushNodes(p2), edges |-> WithIds(edges)]

\* front matters of a.md: none, the derived value present, in the middle,
\* a scalar, the derived value as a scalar, two keys, an emptied list, a
\* value twice
FrontMatters ==
    { NoFrontMatter,
      FrontMatter(<< Entry("topic", <<"hello">>) >>, {}),
      FrontMatter(<< Entry("topic", <<"x", "hello", "y">>) >>, {}),
      FrontMatter(<< Entry("topic", <<"x">>) >>, {"topic"}),
      FrontMatter(<< Entry("topic", <<"hello">>) >>, {"topic"}),
      FrontMatter(<< Entry("kind", <<"world">>), Entry("topic", <<"y">>) >>, {}),
      FrontMatter(<< Entry("tags", <<"t1">>), Entry("topic", <<>>) >>, {}),
      FrontMatter(<< Entry("topic", <<"x", "x">>) >>, {}) }

Vaults ==
    { [ p \in Paths |->
          IF p = "a.md" THEN Doc(fm)
          ELSE IF p = "b.md" THEN [exists |-> hasB, frontmatter |-> NoFrontMatter, body |-> ""]
          ELSE Doc(NoFrontMatter) ] : fm \in FrontMatters, hasB \in BOOLEAN }

FixedEdgeLists ==
    { << RawEdge("", "f1", "k1", "topic", NoVal, NoVal) >>,
      << RawEdge("", "f1", "k1", "topic", NoVal, NoVal),
         RawEdge("", "f1", "k1", "topic", NoVal, NoVal) >>,
      << RawEdge("", "f1", "k2", "kind", NoVal, NoVal),
         RawEdge("", "f2", "k1", "topic", NoVal, NoVal) >>,
      << RawEdge("", "f2", "k2", "topic", NoVal, NoVal),
         RawEdge("", "f3", "k1", "topic", NoVal, NoVal) >> }

PushInput(c, s, o, only, v) ==
    [canvas |-> c, settings |-> s, overwrite |-> o, onlyUpdateNoteAtPath |-> only, vault |-> v]

\* every list of edges on the plain vault; the fixed lists on every vault
PushInputs ==
    { PushInput(PushCanvas(p2, edges), AllOn, o, NoVal, VaultPlain) :
        p2 \in Paths, edges \in PushEdgeLists, o \in BOOLEAN }
    \cup
    { PushInput(PushCanvas(p2, edges), s, o, only, v) :
        p2 \in {"a.md", "b.md"}, edges \in FixedEdgeLists, s \in {DEFAULT_SETTINGS, AllOn},
        o \in BOOLEAN, only \in {NoVal, "a.md", "b.md"}, v \in Vaults }

InitPush ==
    /\ \E in \in PushInputs :
          /\ canvas = in.canvas
          /\ settings = in.settings
          /\ overwrite = in.overwrite
          /\ onlyUpdateNoteAtPath = in.onlyUpdateNoteAtPath
          /\ vault = in.vault
    /\ pc = "start"
    /\ data = NoMap
    /\ fileNodes = <<>>
    /\ thrown = NoVal
    /\ pending = <<>>
    /\ NoNoteRun
    /\ NoStageRun
    /\ NoWatchRun
    /\ NoPullRun

\* from the de-dupe to actualFilesMap: the merged maps of the documents that
\* get a write, or the Error of a path the vault does not have
actualFilesMap ==
    LET deduped  == Filter(dedupe(fileNodes, <<>>),
                           LAMBDA n : ~n.propsOnCanvas.isNull /\ Len(keysOf(n.propsOnCanvas)) > 0)
        found    == Map(deduped, LAMBDA n : [file |-> n.filePath, props |-> n.propsOnCanvas])
        markdown == Filter(found, LAMBDA m : extensionOf(m.file) = "md")
    IN  [ missing |-> Filter(deduped, LAMBDA n : ~vault[n.filePath].exists),
          maps    |-> IF onlyUpdateNoteAtPath # NoVal
                      THEN Filter(markdown, LAMBDA m : m.file = onlyUpdateNoteAtPath)
                      ELSE markdown ]

\* the synchronous part between the derivation and the first callback: every
\* processFrontMatter call is issued, none has run, and backlinksMap is filled
IssueWrites ==
    /\ pc = "derived"
    /\ LET afm == actualFilesMap
       IN  IF afm.missing # <<>>
           THEN /\ pc' = "failed"
                /\ thrown' = "No file found at path " \o afm.missing[1].filePath
                /\ pending' = pending
                /\ backlinksMap' = backlinksMap
           ELSE /\ pc' = "writing"
                /\ thrown' = thrown
                /\ pending' = afm.maps
                /\ backlinksMap' = backlinksMapOf(data, vault, settings)
    /\ UNCHANGED <<canvas, settings, data, fileNodes, overwrite, onlyUpdateNoteAtPath, vault,
                   noteVars, runs, content, pullVars, watchVars>>

\* one of the issued callbacks runs on the front matter of its document
ProcessFrontMatter ==
    /\ pc = "writing"
    /\ \E i \in 1..Len(pending) :
          LET fileMap == pending[i]
          IN  /\ vault' = [vault EXCEPT ![fileMap.file].frontmatter =
                              frontmatterCallback(@, fileMap.props, overwrite)]
              /\ pending' = [j \in 1..(Len(pending) - 1) |->
                                IF j < i THEN pending[j] ELSE pending[j + 1]]
    /\ UNCHANGED <<canvas, settings, pc, data, fileNodes, thrown, overwrite,
                   onlyUpdateNoteAtPath, noteVars, stageVars, pullVars, watchVars>>

NextPush == GetCanvasMap \/ NewFileNodes \/ IssueWrites \/ ProcessFrontMatter

SpecPush == InitPush /\ [][NextPush]_vars

(***************************************************************************)
(* The backlinks stage of a push run, on canvases with edges between the   *)
(* notes a.md and b.md: for every entry of backlinksMap in turn,           *)
(* updateBacklinksInFile reads the file and, after the await, writes the   *)
(* new content; the front matter callbacks issued before run when they     *)
(* run.                                                                    *)
(***************************************************************************)
BacklinkCanvases ==
    LET nodes == << FileData("f1", "a.md", NoVal, 0, 0, 1, 1),
                    FileData("f2", "b.md", NoVal, 0, 2, 1, 1),
                    CardNode("k1", "hello", 2, 0, 1, 1) >>
    IN  { [nodes |-> nodes, edges |-> WithIds(edges)] :
            edges \in { << RawEdge("", "f1", "f2", "topic", NoVal, NoVal) >>,
                        << RawEdge("", "f1", "f2", "topic", "arrow", NoVal) >>,
                        << RawEdge("", "f1", "k1", "topic", NoVal, NoVal),
                           RawEdge("", "f2", "f1", "kind", NoVal, NoVal) >>,
                        << RawEdge("", "f1", "k1", "topic", NoVal, NoVal) >> } }

BacklinkVaults ==
    { [ p \in Paths |-> IF p = "a.md" THEN DocWith(fm, body) ELSE Doc(NoFrontMatter) ] :
        fm \in {NoFrontMatter, FrontMatter(<< Entry("topic", <<"x">>) >>, {})},
        body \in {"", "Some text\n", "Text\n\n## Connections\n- [[c]]\n"} }

InitBacklinks ==
    /\ canvas \in BacklinkCanvases
    /\ settings \in {DEFAULT_SETTINGS, [DEFAULT_SETTINGS EXCEPT !.useBacklinks = FALSE]}
    /\ overwrite \in BOOLEAN
    /\ onlyUpdateNoteAtPath = NoVal
    /\ vault \in BacklinkVaults
    /\ pc = "start"
    /\ data = NoMap
    /\ fileNodes = <<>>
    /\ thrown = NoVal
    /\ pending = <<>>
    /\ NoNoteRun
    /\ NoStageRun
    /\ NoWatchRun
    /\ NoPullRun

\* updateBacklinksInFile up to its first await: the file of the next entry
\* of backlinksMap is read
ReadBacklinkFile ==
    /\ pc = "writing"
    /\ backlinksMap # <<>>
    /\ ~content.exists
    /\ content' = vault[backlinksMap[1].file]
    /\ UNCHANGED <<canvas, settings, pc, data, fileNodes, thrown, pushVars, noteVars, pullVars,
                   runs, backlinksMap, watchVars>>

\* the rest of updateBacklinksInFile: the new content, made from what was
\* read, replaces the file
ModifyBacklinkFile ==
    /\ pc = "writing"
    /\ content.exists
    /\ vault' = [vault EXCEPT ![backlinksMap[1].file] =
                    modify(content, updatedBacklinks(read(content), settings.backlinksHeading,
                                                     backlinksMap[1].links))]
    /\ backlinksMap' = Tail(backlinksMap)
    /\ content' = NoContent
    /\ UNCHANGED <<canvas, settings, pc, data, fileNodes, thrown, overwrite,
                   onlyUpdateNoteAtPath, pending, noteVars, pullVars, runs, watchVars>>

NextBacklinks == NextPush \/ ReadBacklinkFile \/ ModifyBacklinkFile

SpecBacklinks == InitBacklinks /\ [][NextBacklinks]_vars

(***************************************************************************)
(* The append push run again on the canvas it has just been run on, once   *)
(* every callback of the run before has written.                           *)
(***************************************************************************)
AppendInputs ==
    { PushInput(PushCanvas(p2, edges), s, FALSE, only, v) :
        p2 \in {"a.md", "b.md"}, edges \in FixedEdgeLists, s \in {DEFAULT_SETTINGS, AllOn},
        only \in {NoVal, "a.md"}, v \in Vaults }

InitAppend ==
    /\ \E in \in AppendInputs :
          /\ canvas = in.canvas
          /\ settings = in.settings
          /\ overwrite = in.overwrite
          /\ onlyUpdateNoteAtPath = in.onlyUpdateNoteAtPath
          /\ vault = in.vault
    /\ pc = "start"
    /\ data = NoMap
    /\ fileNodes = <<>>
    /\ thrown = NoVal
    /\ pending = <<>>
    /\ NoNoteRun
    /\ NoStageRun
    /\ NoWatchRun
    /\ NoPullRun

\* the command is given again: pushCanvasDataToNotes starts with new locals
PushAgain ==
    /\ pc = "writing"
    /\ pending = <<>>
    /\ backlinksMap = <<>>
    /\ runs + 1 < MaxRuns
    /\ runs' = runs + 1
    /\ pc' = "start"
    /\ data' = NoMap
    /\ fileNodes' = <<>>
    /\ UNCHANGED <<canvas, settings, thrown, pushVars, noteVars, pullVars, backlinksMap, content,
                   watchVars>>

NextAppend == NextPush \/ PushAgain

SpecAppend == InitAppend /\ [][NextAppend]_vars

(***************************************************************************)
(* createCanvasFromNote: the note a.md, whose front matter has the         *)
(* excluded key Tags, up to MaxProps list properties K1, K2, ... and the   *)
(* scalar title, becomes a canvas.                                         *)
(***************************************************************************)
noteFile == "a.md"

ValuePalette ==
    {"hello", "a sentence of some length", "[[a]]", "[[b#h]]", "[[nope]]", "https://x.org"}

ShapeLists ==
    { <<>>, <<"hello">>, <<"[[a]]">>, <<"hello", "a sentence of some length">>,
      <<"[[b#h]]", "https://x.org">>, <<"[[nope]]", "hello", "https://x.org">> }

ValueLists == UNION { [1..n -> ValuePalette] : n \in 0..MaxVals }

KeyAt(i) == "K" \o ToString(i)

\* every choice of up to MaxProps lists among the shapes; every list of up
\* to MaxVals values followed by a one-value list
NoteLists ==
    UNION { [1..n -> ShapeLists] : n \in 0..MaxProps }
    \cup { <<vals, <<"hello">> >> : vals \in ValueLists }

NoteFrontMatter(lists) ==
    FrontMatter(<< Entry("Tags", <<"t1", "t2">>) >>
                    \o [i \in 1..Len(lists) |-> Entry(KeyAt(i), lists[i])]
                    \o << Entry("title", <<"A note">>) >>,
                {"title"})

NoteVaults ==
    { [ p \in Paths |-> IF p = noteFile THEN Doc(NoteFrontMatter(lists)) ELSE Doc(NoFrontMatter) ] :
        lists \in NoteLists }

InitCreate ==
    /\ vault \in NoteVaults
    /\ settings = DEFAULT_SETTINGS
    /\ pc = "start"
    /\ canvas = NoCanvas
    /\ data = NoMap
    /\ fileNodes = <<>>
    /\ thrown = NoVal
    /\ overwrite = FALSE
    /\ onlyUpdateNoteAtPath = NoVal
    /\ pending = <<>>
    /\ NoNoteRun
    /\ NoStageRun
    /\ NoWatchRun
    /\ NoPullRun

\* let listTypeProps = this.getNoteData(file.path)
GetNoteData ==
    /\ pc = "start"
    /\ listTypeProps' = getNoteData(vault[noteFile].frontmatter, settings)
    /\ pc' = "read"
    /\ UNCHANGED <<canvas, settings, data, fileNodes, thrown, pushVars, canvasContents, stageVars, pullVars,
                   watchVars>>

\* const canvasContents = buildCanvasContents(file, listTypeProps)
BuildCanvasContents ==
    /\ pc = "read"
    /\ LET built == buildCanvasContents(vault, noteFile, listTypeProps)
       IN  IF built.error # NoVal
           THEN /\ pc' = "failed"
                /\ thrown' = built.error
                /\ canvasContents' = canvasContents
           ELSE /\ pc' = "built"
                /\ thrown' = thrown
                /\ canvasContents' = [nodes |-> built.nodes, edges |-> built.edges]
    /\ UNCHANGED <<canvas, settings, data, fileNodes, pushVars, listTypeProps, stageVars, pullVars,
                   watchVars>>

\* await this.app.vault.create(savePath, JSON.stringify(canvasContents))
CreateCanvas ==
    /\ pc = "built"
    /\ canvas' = canvasContents
    /\ pc' = "created"
    /\ UNCHANGED <<settings, data, fileNodes, thrown, pushVars, noteVars, stageVars, pullVars,
                   watchVars>>

\* a push run started on the canvas just created:
\* let data = await SemanticCanvasPlugin.getCanvasMap(canvasFile)
GetCanvasMapOfCreated ==
    /\ pc = "created"
    /\ LET map == getCanvasMap(canvas)
       IN  IF map.error # NoVal
           THEN /\ pc' = "failed"
                /\ thrown' = map.error
                /\ data' = data
           ELSE /\ pc' = "mapped"
                /\ thrown' = thrown
                /\ data' = map
    /\ UNCHANGED <<canvas, settings, fileNodes, pushVars, noteVars, stageVars, pullVars, watchVars>>

NextCreate ==
    GetNoteData \/ BuildCanvasContents \/ CreateCanvas \/ GetCanvasMapOfCreated \/ NewFileNodes

SpecCreate == InitCreate /\ [][NextCreate]_vars

(***************************************************************************)
(* Note -> existing canvas: pull runs on a canvas with a note a.md, a card *)
(* and a link or a group, with or without a file node for b.md, over       *)
(* vaults whose                                                            *)
(* a.md holds the kinds of value a pull tells apart.  The view shows the   *)
(* saved file.                                                             *)
(***************************************************************************)
PullNodeLists ==
    LET f1 == [RawNode("f1", "file", 0, 0, 2, 1) EXCEPT !.file = "a.md"]
        f2 == [RawNode("f2", "file", 0, 2, 2, 1) EXCEPT !.file = "b.md"]
        k1 == [RawNode("k1", "text", 3, 0, 2, 1) EXCEPT !.text = "hello"]
        u1(url) == [RawNode("u1", "link", 3, 2, 2, 1) EXCEPT !.url = url]
        g1 == [RawNode("g1", "group", 6, 0, 2, 1) EXCEPT !.label = "x"]
    IN  { <<f1, k1, u1("https://x.org")>>,
          <<f1, f2, k1, u1("https://x.org")>>,
          <<f1, k1, u1("b.md")>>,
          <<f1, k1, g1>> }

PullEdgeLists ==
    { <<>>,
      <<RawEdge("e1", "f1", "k1", "topic", NoVal, NoVal)>>,
      <<RawEdge("e1", "f1", "k1", "kind", NoVal, NoVal)>>,
      <<RawEdge("e1", "f1", "zz", "topic", NoVal, NoVal)>> }

PullFrontMatters ==
    { NoFrontMatter,
      FrontMatter(<<Entry("topic", <<"hello">>)>>, {}),
      FrontMatter(<<Entry("topic", <<"hello", "x">>)>>, {}),
      FrontMatter(<<Entry("topic", <<"hello", "hello">>)>>, {}),
      FrontMatter(<<Entry("topic", <<"x", "x">>)>>, {}),
      FrontMatter(<<Entry("topic", <<"[[b]]">>), Entry("kind", <<"hello">>)>>, {}),
      FrontMatter(<<Entry("topic", <<"[[a]]">>)>>, {}),
      FrontMatter(<<Entry("topic", <<"[[nothing]]">>)>>, {}),
      FrontMatter(<<Entry("topic", <<"https://x.org">>)>>, {}),
      FrontMatter(<<Entry("Tags", <<"hello">>)>>, {}),
      FrontMatter(<<Entry("title", <<"hello">>)>>, {"title"}),
      FrontMatter(<<Entry("topic", <<"b.md">>), Entry("kind", <<"[[b]]">>)>>, {}) }

PullVaults ==
    { [p \in Paths |-> IF p = "a.md" THEN Doc(fa)
                       ELSE IF p = "b.md" THEN Doc(fb) ELSE Doc(NoFrontMatter)] :
        fa \in PullFrontMatters,
        fb \in {NoFrontMatter, FrontMatter(<<Entry("topic", <<"hello">>)>>, {})} }

InitPull ==
    /\ \E nodes \in PullNodeLists, edges \in PullEdgeLists :
            canvas = [nodes |-> nodes, edges |-> edges]
    /\ vault \in PullVaults
    /\ settings = DEFAULT_SETTINGS
    /\ pc = "start"
    /\ data = NoMap
    /\ fileNodes = <<>>
    /\ thrown = NoVal
    /\ overwrite = FALSE
    /\ onlyUpdateNoteAtPath = NoVal
    /\ pending = <<>>
    /\ NoNoteRun
    /\ NoStageRun
    /\ NoWatchRun
    /\ pulls = 0 /\ pullArgs = NoPull /\ idCount = 0
    /\ viewData = canvas

\* the end of a call of pullNotePropertiesToCanvas: vault.process saves the
\* canvas, or the error of the run is thrown; the view is not touched
PullEnds(run) ==
    /\ canvas' = IF run.error # NoVal THEN canvas ELSE run.saved
    /\ idCount' = run.ids
    /\ thrown' = run.error
    /\ pc' = IF run.error # NoVal THEN "failed" ELSE "pulled"
    /\ pulls' = pulls + 1
    /\ UNCHANGED <<settings, data, fileNodes, pushVars, noteVars, stageVars, viewData, watchVars>>

\* the commands of the canvas file menu: every file node of the view
PullAllNotes ==
    \E existingOnly \in BOOLEAN :
        /\ pulls < MaxPulls
        /\ pullArgs' = [ nodesToPullFrom |-> Filter(viewData.nodes, LAMBDA node : node.type = "file"),
                         existingOnly |-> existingOnly ]
        /\ PullEnds(pullNotePropertiesToCanvas(vault, settings, viewData, canvas,
                        Filter(viewData.nodes, LAMBDA node : node.type = "file"),
                        existingOnly, idCount))

\* the items of the node menu: the node clicked, if it shows a file
PullOneNote ==
    \E i \in 1..Len(viewData.nodes), existingOnly \in BOOLEAN :
        /\ pulls < MaxPulls
        /\ viewData.nodes[i].file # NoVal
        /\ pullArgs' = [nodesToPullFrom |-> <<viewData.nodes[i]>>, existingOnly |-> existingOnly]
        /\ PullEnds(pullNotePropertiesToCanvas(vault, settings, viewData, canvas,
                                               <<viewData.nodes[i]>>, existingOnly, idCount))

\* the open view loads the file after it was written
ViewLoads ==
    /\ viewData # canvas
    /\ viewData' = canvas
    /\ UNCHANGED <<canvas, settings, pc, data, fileNodes, thrown, pushVars, noteVars, stageVars,
                   pulls, pullArgs, idCount, watchVars>>

NextPull == PullAllNotes \/ PullOneNote \/ ViewLoads

SpecPull == InitPull /\ [][NextPull]_vars

(***************************************************************************)
(* Vocabulary of the properties, stated on the canvas file itself.         *)
(***************************************************************************)
Mapped  == pc \in {"mapped", "derived"}
Derived == pc = "derived"

ContentTypes == {"text", "file", "link"}

CanvasNodes(types) == {n \in Range(canvas.nodes) : n.type \in types}
NodeOfId(id) == CHOOSE n \in Range(canvas.nodes) : n.id = id
IsNodeOf(id, types) == \E n \in CanvasNodes(types) : n.id = id

\* the inclusive bounding-box rule
Encloses(g, n) ==
    /\ g.x <= n.x
    /\ g.y <= n.y
    /\ g.x + g.width >= n.x + n.width
    /\ g.y + g.height >= n.y + n.height

\* ids of the card, file and url nodes inside the group with id gid
MemberIds(gid) == {n.id : n \in {m \in CanvasNodes(ContentTypes) : Encloses(NodeOfId(gid), m)}}

\* ids of the groups around the node with id nid
GroupIdsAround(nid) == {g.id : g \in {h \in CanvasNodes({"group"}) : Encloses(h, NodeOfId(nid))}}

\* positions in data.edges: the edges read from the file, then the phantoms
ReadEdges    == 1..Len(canvas.edges)
PhantomEdges == (Len(canvas.edges) + 1)..Len(data.edges)

\* the derived map of the file node with the given id
PropsOf(fid) ==
    fileNodes[CHOOSE i \in 1..Len(data.files) : data.files[i].id = fid].propsOnCanvas

KeySet(props) == {props.entries[i].key : i \in 1..Len(props.entries)}

ListUnder(props, key) ==
    IF key \in KeySet(props)
    THEN props.entries[CHOOSE i \in 1..Len(props.entries) : props.entries[i].key = key].vals
    ELSE <<>>

ValuesUnder(props, key) == Range(ListUnder(props, key))

\* what a card, url or file node contributes as the other side of an edge
ValueOfNode(n) ==
    CASE n.type = "text" -> n.text
      [] n.type = "link" -> n.url
      [] n.type = "file" ->
            "[[" \o fileToLinktext(n.file) \o (IF n.subpath = NoVal THEN "" ELSE n.subpath) \o "]]"

CategoryOn(type) ==
    CASE type = "text" -> settings.useCards
      [] type = "link" -> settings.useUrls
      [] type = "file" -> settings.useFiles

DefaultKey(type) ==
    CASE type = "text" -> settings.cardDefault
      [] type = "link" -> settings.urlDefault
      [] type = "file" -> settings.fileDefault

\* the key an edge's value goes under, given the type of its other side
KeyOfEdge(e, type) == IF e.label # NoVal THEN e.label ELSE DefaultKey(type)

\* the edge e (of data.edges) is relevant to the file node fid
RelevantTo(fid, e) ==
    LET rel == {fid} \cup GroupIdsAround(fid)
    IN  e.fromNode \in rel \/ (e.isBidirectional /\ e.toNode \in rel)

\* positions of the edges relevant to fid whose other side is a card, url or
\* file of an enabled category, and whose key is k
Contributing(fid, k) ==
    { j \in 1..Len(data.edges) :
        LET e == data.edges[j]
            o == IF e.toNode = fid THEN e.fromNode ELSE e.toNode
        IN  /\ RelevantTo(fid, e)
            /\ IsNodeOf(o, ContentTypes)
            /\ CategoryOn(NodeOfId(o).type)
            /\ KeyOfEdge(e, NodeOfId(o).type) = k }

(***************************************************************************)
(* C9  Every edge read from the canvas is flagged bidirectional exactly    *)
(* when its fromEnd is "arrow" or its toEnd is "none"; the rest of the     *)
(* edge is kept as read and plays no part in the flag.                     *)
(***************************************************************************)
C9_BidirectionalRule ==
    Mapped =>
        \A i \in ReadEdges :
            data.edges[i] =
                [canvas.edges[i] EXCEPT !.isBidirectional =
                    (canvas.edges[i].fromEnd = "arrow") \/ (canvas.edges[i].toEnd = "none")]

\* an edge without any arrow head is flagged, one with two heads as well
C9_Witness ==
    /\ Mapped
    /\ \E i \in ReadEdges :
        /\ canvas.edges[i].fromEnd = "none" /\ canvas.edges[i].toEnd = "none"
        /\ data.edges[i].isBidirectional

(***************************************************************************)
(* C6  After ingest a card, file or url node is in a group's               *)
(* containedNodes exactly when the group's box encloses the node's box,    *)
(* equality on any side included; containedNodes never holds a group; and  *)
(* a file's inGroups lists exactly the groups whose containedNodes hold it.*)
(***************************************************************************)
C6_Containment ==
    Mapped =>
        /\ \A gi \in 1..Len(data.groups) :
            LET g == data.groups[gi]
            IN  /\ \A n \in CanvasNodes(ContentTypes) :
                        (n.id \in Range(g.containedNodes)) <=> Encloses(NodeOfId(g.id), n)
                /\ \A id \in Range(g.containedNodes) : ~IsNodeOf(id, {"group"})
                /\ Cardinality(Range(g.containedNodes)) = Len(g.containedNodes)
        /\ \A fi \in 1..Len(data.files) :
            LET f == data.files[fi]
                holders == SelectSeq(data.groups, LAMBDA g : f.id \in Range(g.containedNodes))
            IN  f.inGroups = [i \in 1..Len(holders) |-> holders[i].id]

\* a file node whose four sides all coincide with the group's is contained
C6_Witness ==
    /\ Mapped
    /\ \E gi \in 1..Len(data.groups), n \in CanvasNodes({"file"}) :
        LET g == data.groups[gi]
        IN  /\ g.x = n.x /\ g.y = n.y
            /\ g.x + g.width = n.x + n.width /\ g.y + g.height = n.y + n.height
            /\ n.id \in Range(g.containedNodes)
            /\ \E fi \in 1..Len(data.files) :
                    data.files[fi].id = n.id /\ g.id \in Range(data.files[fi].inGroups)

(***************************************************************************)
(* C2  getCanvasMap appends, for every edge read from the canvas whose     *)
(* toNode is a group with N card/file/url members, exactly N phantom       *)
(* edges: id = id of the edge + "-phantom", fromNode = its fromNode,       *)
(* label = its label if it has one, else the group's label, and the N      *)
(* toNodes are the N members.  Every phantom edge stems from such an edge: *)
(* none from an edge to a non-group, none because a fromNode is a group,   *)
(* none from a phantom edge.                                               *)
(***************************************************************************)
PhantomsOf(i) ==
    { j \in PhantomEdges : data.edges[j].id = canvas.edges[i].id \o "-phantom" }

C2_PhantomEdges ==
    Mapped =>
        /\ \A i \in ReadEdges :
            LET e == canvas.edges[i]
            IN  IF IsNodeOf(e.toNode, {"group"})
                THEN /\ Cardinality(PhantomsOf(i)) = Cardinality(MemberIds(e.toNode))
                     /\ {data.edges[j].toNode : j \in PhantomsOf(i)} = MemberIds(e.toNode)
                     /\ \A j \in PhantomsOf(i) :
                            /\ data.edges[j].fromNode = e.fromNode
                            /\ data.edges[j].label =
                                 IF e.label # NoVal THEN e.label ELSE NodeOfId(e.toNode).label
                ELSE PhantomsOf(i) = {}
        /\ \A j \in PhantomEdges : \E i \in ReadEdges : j \in PhantomsOf(i)

\* an edge from a group to a group of three members, and a labeled edge to a
\* group of at least two: three phantom edges for the first
C2_Witness ==
    /\ Mapped
    /\ \E i \in ReadEdges :
        /\ IsNodeOf(canvas.edges[i].fromNode, {"group"})
        /\ IsNodeOf(canvas.edges[i].toNode, {"group"})
        /\ canvas.edges[i].label = NoVal
        /\ Cardinality(MemberIds(canvas.edges[i].toNode)) = 3
        /\ Cardinality(PhantomsOf(i)) = 3
    /\ \E i \in ReadEdges :
        /\ IsNodeOf(canvas.edges[i].toNode, {"group"})
        /\ canvas.edges[i].label = "topic"
        /\ Cardinality(PhantomsOf(i)) >= 2

(***************************************************************************)
(* C1  A labeled edge from a file node F to a group G gives F the same     *)
(* derived map, as far as the set of values under every key goes, as the   *)
(* canvas in which that edge is replaced by one equally labeled direct     *)
(* edge from F to each card, file and url node inside G.  (A null result   *)
(* has no key, like an empty map.)                                         *)
(***************************************************************************)
\* the canvas with its i-th edge replaced by direct edges to the members
DirectEdges(i) ==
    LET e == canvas.edges[i]
        members == SelectSeq(canvas.nodes,
                             LAMBDA n : n.type \in ContentTypes /\ n.id \in MemberIds(e.toNode))
    IN  [k \in 1..Len(members) |->
            [e EXCEPT !.id = e.id \o "-" \o ToString(k), !.toNode = members[k].id]]

WithDirectEdges(i) ==
    [canvas EXCEPT !.edges =
        SubSeq(canvas.edges, 1, i - 1) \o DirectEdges(i)
            \o SubSeq(canvas.edges, i + 1, Len(canvas.edges))]

\* the derived map of file node fid on another canvas
PropsOn(otherCanvas, fid) ==
    LET d == getCanvasMap(otherCanvas)
        f == d.files[CHOOSE k \in 1..Len(d.files) : d.files[k].id = fid]
    IN  FileNode(f, d, settings).propsOnCanvas

SameValueSets(p, q) ==
    /\ KeySet(p) = KeySet(q)
    /\ \A k \in KeySet(p) : ValuesUnder(p, k) = ValuesUnder(q, k)

LabeledFileToGroup(i) ==
    /\ canvas.edges[i].label # NoVal
    /\ IsNodeOf(canvas.edges[i].fromNode, {"file"})
    /\ IsNodeOf(canvas.edges[i].toNode, {"group"})

C1_GroupEdgeAsDirectEdges ==
    Derived =>
        \A i \in ReadEdges :
            LabeledFileToGroup(i) =>
                SameValueSets(PropsOf(canvas.edges[i].fromNode),
                              PropsOn(WithDirectEdges(i), canvas.edges[i].fromNode))

\* an edge labeled "topic" from a file to a group of a file, a card and a
\* url: the file has all three values under "topic"
C1_Witness ==
    /\ Derived
    /\ \E i \in ReadEdges :
        /\ LabeledFileToGroup(i)
        /\ canvas.edges[i].label = "topic"
        /\ Cardinality(MemberIds(canvas.edges[i].toNode)) = 3
        /\ Cardinality(ValuesUnder(PropsOf(canvas.edges[i].fromNode), "topic")) = 3

(***************************************************************************)
(* C3  (as claimed) For an unlabeled edge from a document node S to a      *)
(* group G with members M1..Mn, every phantom edge contributes an entry,   *)
(* keyed by G's label, to the derived map of its member Mi.  Stated for    *)
(* the members that are documents, with every category enabled and G's     *)
(* label present and not empty.                                            *)
(***************************************************************************)
UnlabeledFileToLabeledGroup(i) ==
    /\ canvas.edges[i].label = NoVal
    /\ IsNodeOf(canvas.edges[i].fromNode, {"file"})
    /\ IsNodeOf(canvas.edges[i].toNode, {"group"})
    /\ NodeOfId(canvas.edges[i].toNode).label \notin {NoVal, ""}

C3_Claimed_EntryInMemberMap ==
    (Derived /\ settings = AllOn) =>
        \A i \in ReadEdges :
            UnlabeledFileToLabeledGroup(i) =>
                \A m \in MemberIds(canvas.edges[i].toNode) :
                    IsNodeOf(m, {"file"}) =>
                        NodeOfId(canvas.edges[i].toNode).label \in KeySet(PropsOf(m))

(***************************************************************************)
(* C3  (amended) For an unlabeled edge from a document node S to a group   *)
(* G with members M1..Mn, every phantom edge contributes an entry, keyed   *)
(* by G's label, to the derived map of S: the value of its member Mi.      *)
(* This holds when G's label is present and not empty and the category of  *)
(* Mi is enabled.                                                          *)
(***************************************************************************)
C3_EntryInSourceMap ==
    Derived =>
        \A i \in ReadEdges :
            UnlabeledFileToLabeledGroup(i) =>
                \A m \in MemberIds(canvas.edges[i].toNode) :
                    CategoryOn(NodeOfId(m).type) =>
                        ValueOfNode(NodeOfId(m)) \in
                            ValuesUnder(PropsOf(canvas.edges[i].fromNode),
                                        NodeOfId(canvas.edges[i].toNode).label)

\* Scenario D: f2 -> "Inbox", which holds f1, k1 and u1; f2 is outside.  f2
\* has the three values under "Inbox", f1 has no key "Inbox"
C3_Witness ==
    /\ Derived
    /\ \E i \in ReadEdges :
        /\ UnlabeledFileToLabeledGroup(i)
        /\ canvas.edges[i].fromNode \notin MemberIds(canvas.edges[i].toNode)
        /\ Cardinality(MemberIds(canvas.edges[i].toNode)) = 3
        /\ Cardinality(ValuesUnder(PropsOf(canvas.edges[i].fromNode), "Inbox")) = 3
        /\ \E m \in MemberIds(canvas.edges[i].toNode) :
                IsNodeOf(m, {"file"}) /\ "Inbox" \notin KeySet(PropsOf(m))

(***************************************************************************)
(* C4  For every relevant edge of a file node whose other side is a card,  *)
(* url or file: the value of the other side is in the list under the       *)
(* edge's label if the edge has one, and under the default key of the      *)
(* other side's type if it has none.  Stated for the edges whose category  *)
(* is enabled and whose key is not the empty string; the lists hold one    *)
(* value per such edge (plus, under groupDefault, the group labels) and    *)
(* nothing else.                                                           *)
(***************************************************************************)
GroupPart(fid, k) ==
    IF settings.useGroups /\ k = settings.groupDefault
    THEN Cardinality(GroupIdsAround(fid))
    ELSE 0

AllKeys == Labels \cup {settings.cardDefault, settings.urlDefault,
                        settings.fileDefault, settings.groupDefault, "Inbox", "Zed"}

LabelsAround(fid) ==
    LET around == SelectSeq(canvas.nodes,
                            LAMBDA n : n.type = "group" /\ n.id \in GroupIdsAround(fid))
    IN  [i \in 1..Len(around) |-> around[i].label]

C5_Claimed_ExactlyGroupLabels ==
    (Derived /\ settings.useGroups) =>
        \A f \in CanvasNodes({"file"}) :
            GroupIdsAround(f.id) # {} =>
                ListUnder(PropsOf(f.id), settings.groupDefault) = LabelsAround(f.id)

(***************************************************************************)
(* C5  (amended) With useGroups on, a file node inside at least one group  *)
(* has groupDefault as its first key, and the list under it starts with    *)
(* the labels of exactly the groups that enclose it, in canvas order; what *)
(* follows them are the values of the edges whose key is groupDefault.  A  *)
(* file node with one enclosing group and no relevant edge yields exactly  *)
(* {groupDefault: [label]}.                                                *)
(***************************************************************************)
C5_GroupLabelsFirst ==
    (Derived /\ settings.useGroups) =>
        \A f \in CanvasNodes({"file"}) :
            GroupIdsAround(f.id) # {} =>
                LET props == PropsOf(f.id)
                    list  == ListUnder(props, settings.groupDefault)
                    n     == Len(LabelsAround(f.id))
                IN  /\ ~props.isNull
                    /\ props.entries[1].key = settings.groupDefault
                    /\ Len(list) = n + Cardinality(Contributing(f.id, settings.groupDefault))
                    /\ SubSeq(list, 1, n) = LabelsAround(f.id)
                    /\ ( /\ n = 1
                         /\ \A j \in 1..Len(data.edges) : ~RelevantTo(f.id, data.edges[j]) )
                       => props.entries =
                            << [key |-> settings.groupDefault, vals |-> LabelsAround(f.id)] >>

\* f1 is inside "Zed" and an unlabeled group, "Zed" first, and has an edge
\* labeled "groups" to the card: the list is the two labels, then "hello"
C5_Witness ==
    /\ Derived /\ settings.useGroups
    /\ ListUnder(PropsOf("f1"), "groups") = <<"Zed", NoVal, "hello">>
    /\ LabelsAround("f1") = <<"Zed", NoVal>>

(***************************************************************************)
(* C7  A bidirectional edge is relevant to the documents at both ends:     *)
(* a file node at either end has the value of the node at the other end    *)
(* (a card, url or file) under the edge's key.  For two file nodes A and   *)
(* B, A has a value for B and B has a value for A.  Stated for the edges   *)
(* whose other side's category is enabled and whose key is not empty.      *)
(***************************************************************************)
HasValueFor(fid, oid, e) ==
    LET o == NodeOfId(oid)
        k == KeyOfEdge(e, o.type)
    IN  (CategoryOn(o.type) /\ k # "") => ValueOfNode(o) \in ValuesUnder(PropsOf(fid), k)

C8_NullSentinel ==
    Derived =>
        \A f \in CanvasNodes({"file"}) :
            PropsOf(f.id).isNull <=>
                /\ GroupIdsAround(f.id) = {}
                /\ \A j \in 1..Len(data.edges) : ~RelevantTo(f.id, data.edges[j])

\* one file node without edges and groups (null) next to one whose only
\* edge has an empty label (an empty map, not null)
C8_Witness ==
    /\ Derived
    /\ \E f, g \in CanvasNodes({"file"}) :
        /\ PropsOf(f.id) = NullProps
        /\ GroupIdsAround(f.id) = {}
        /\ PropsOf(g.id) = EmptyProps
        /\ \E j \in 1..Len(data.edges) : RelevantTo(g.id, data.edges[j])

(***************************************************************************)
(* C10  (as claimed) A run ends in a fatal error whenever an edge of the   *)
(* canvas has a fromNode or a toNode that is no card, file, url or group:  *)
(* a run that gets as far as the derived maps has no such edge.            *)
(***************************************************************************)
KnownTypes == ContentTypes \cup {"group"}

C10_Claimed_UnresolvedEndpointIsFatal ==
    Derived =>
        \A i \in ReadEdges :
            /\ IsNodeOf(canvas.edges[i].fromNode, KnownTypes)
            /\ IsNodeOf(canvas.edges[i].toNode, KnownTypes)

(***************************************************************************)
(* C14  A category that is switched off contributes nothing: with useCards *)
(* false no derived map holds the text of a card, with useUrls false none  *)
(* holds a url, with useFiles false none holds the link of a file node,    *)
(* and with useGroups false none holds the label of a group, whatever the  *)
(* edges and their labels are.  (On the canvases read here the texts,      *)
(* urls, links and group labels are pairwise different, so a value tells   *)
(* the category it came from.)                                             *)
(***************************************************************************)
AllValues(props) == UNION {ValuesUnder(props, k) : k \in KeySet(props)}

ValuesOfType(type) == {ValueOfNode(n) : n \in CanvasNodes({type})}

GroupLabelValues == {g.label : g \in CanvasNodes({"group"})}

C14_TogglesGate ==
    Derived =>
        \A f \in CanvasNodes({"file"}) :
            LET held == AllValues(PropsOf(f.id))
            IN  /\ ~settings.useCards  => held \cap ValuesOfType("text") = {}
                /\ ~settings.useUrls   => held \cap ValuesOfType("link") = {}
                /\ ~settings.useFiles  => held \cap ValuesOfType("file") = {}
                /\ ~settings.useGroups => held \cap GroupLabelValues = {}

\* f1 sits in g1 and has a labeled edge to the card; cards are switched off,
\* groups are on: the map has the group label and not the card's text
C14_Witness ==
    /\ Derived
    /\ ~settings.useCards /\ settings.useGroups
    /\ \E j \in ReadEdges :
          /\ data.edges[j].fromNode = "f1" /\ data.edges[j].toNode = "k1"
          /\ data.edges[j].label = "topic"
    /\ "g1" \in GroupIdsAround("f1")
    /\ ~PropsOf("f1").isNull
    /\ settings.groupDefault \in KeySet(PropsOf("f1"))
    /\ "topic" \notin KeySet(PropsOf("f1"))

(***************************************************************************)
(* C17  The other side of a relevant edge.  As claimed: toNode when the    *)
(* file node's own id is the edge's fromNode, and fromNode in every other  *)
(* case, the edges that are relevant only through a group included.        *)
(* C17_Claimed_FromNodeUnlessSource states that; it fails for an edge that *)
(* leaves a group around the file node.  What holds is                     *)
(* C17_ToNodeUnlessTarget: the other side is fromNode when the file node's *)
(* own id is the edge's toNode, and toNode in every other case.            *)
(***************************************************************************)
OtherSideSeen(i, j) == connectionProps(data.files[i], data.edges[j], data, settings).otherSideId

C17_Claimed_FromNodeUnlessSource ==
    Mapped =>
        \A i \in 1..Len(data.files), j \in 1..Len(data.edges) :
            LET F == data.files[i]
                e == data.edges[j]
            IN  RelevantTo(F.id, e) =>
                    OtherSideSeen(i, j) = IF F.id = e.fromNode THEN e.toNode ELSE e.fromNode

C17_ToNodeUnlessTarget ==
    Mapped =>
        \A i \in 1..Len(data.files), j \in 1..Len(data.edges) :
            LET F == data.files[i]
                e == data.edges[j]
            IN  RelevantTo(F.id, e) =>
                    OtherSideSeen(i, j) = IF F.id = e.toNode THEN e.fromNode ELSE e.toNode

\* an edge from the group g1 to the card k1, relevant to f1 only because f1
\* is inside g1: the card's text reaches the map of f1
C17_Witness ==
    /\ Derived
    /\ settings.useCards
    /\ "g1" \in GroupIdsAround("f1")
    /\ \E j \in ReadEdges :
          /\ data.edges[j].fromNode = "g1" /\ data.edges[j].toNode = "k1"
          /\ data.edges[j].label = "topic"
          /\ RelevantTo("f1", data.edges[j])
    /\ "hello" \in ValuesUnder(PropsOf("f1"), "topic")

(***************************************************************************)
(* C18  As claimed: a result that is not the null sentinel is a map with   *)
(* at least one key, whatever the edges, labels, groups and toggles.       *)
(* C18_Claimed_NonNullIsNonEmpty states that; it fails when the only       *)
(* relevant edge has the label "", leads to a group, or belongs to a       *)
(* category that is switched off.  What holds is C18_NonEmptyIffContributes:*)
(* a result that is not null has a key exactly when something contributes  *)
(* to it: a group around the file node with useGroups on, or a relevant    *)
(* edge to a card, url or file of an enabled category under a key other    *)
(* than the empty string.                                                  *)
(***************************************************************************)
ContributingAny(fid) ==
    { j \in 1..Len(data.edges) :
        LET e == data.edges[j]
            o == IF e.toNode = fid THEN e.fromNode ELSE e.toNode
        IN  /\ RelevantTo(fid, e)
            /\ IsNodeOf(o, ContentTypes)
            /\ CategoryOn(NodeOfId(o).type)
            /\ KeyOfEdge(e, NodeOfId(o).type) # "" }

C18_Claimed_NonNullIsNonEmpty ==
    Derived =>
        \A f \in CanvasNodes({"file"}) :
            ~PropsOf(f.id).isNull => PropsOf(f.id).entries # <<>>

C18_NonEmptyIffContributes ==
    Derived =>
        \A f \in CanvasNodes({"file"}) :
            ~PropsOf(f.id).isNull =>
                ( PropsOf(f.id).entries # <<>>
                    <=> \/ settings.useGroups /\ GroupIdsAround(f.id) # {}
                        \/ ContributingAny(f.id) # {} )

\* f1 is in no group and its only edge, to the card k1, has the label "":
\* the result is not null and has no key
C18_Witness ==
    /\ Derived
    /\ settings.useCards
    /\ GroupIdsAround("f1") = {}
    /\ \E j \in ReadEdges :
          /\ data.edges[j].fromNode = "f1" /\ data.edges[j].toNode = "k1"
          /\ data.edges[j].label = ""
    /\ PropsOf("f1") = EmptyProps

(***************************************************************************)
(* C11  In a push run the front matter of a document changes only once the *)
(* whole canvas is normalized and the maps of all file nodes are derived,  *)
(* and from the moment the writes are issued the run does not fail; hence  *)
(* a run that ends with an Error of the normalization or of the derivation *)
(* has written to no document.                                             *)
(***************************************************************************)
AllDerived ==
    /\ data = getCanvasMap(canvas)
    /\ data.error = NoVal
    /\ fileNodes = Map(data.files, LAMBDA file : FileNode(file, data, settings))

C11_DeriveAllBeforeWrite ==
    [][ /\ vault' # vault => pc = "writing" /\ thrown = NoVal /\ AllDerived
        /\ pc = "writing" => pc' = "writing" /\ thrown' = NoVal
        /\ pc' = "failed" => vault' = vault /\ pending' = <<>> ]_vars

\* f1 has an edge to a card, so that a.md would get a write, and the
\* constructor of the later node f3 throws: the run has failed and the vault
\* is as it was
C11_Witness ==
    /\ pc = "failed"
    /\ thrown = "Could not find other side of edge"
    /\ \E j \in 1..Len(canvas.edges) :
          canvas.edges[j].fromNode = "f1" /\ canvas.edges[j].toNode = "k1"
    /\ \E j \in 1..Len(canvas.edges) :
          canvas.edges[j].fromNode = "zz" /\ canvas.edges[j].toNode = "f3"
    /\ overwrite
    /\ vault = VaultPlain
    /\ pending = <<>>

(***************************************************************************)
(* C12  The write of a derived list under a key of a document: in          *)
(* overwrite mode, or when the document has no such key, the document's    *)
(* list becomes exactly the derived list; in append mode with the key      *)
(* present it becomes the values it had, in their order, followed by the   *)
(* derived values that were not among them, so that no value it had is     *)
(* lost or added a second time.  The keys the map does not have stay as    *)
(* they were.                                                              *)
(***************************************************************************)
PendingFiles == {pending[i].file : i \in 1..Len(pending)}

PendingProps(p) == pending[CHOOSE i \in 1..Len(pending) : pending[i].file = p].props

C12_WriteOfDerivedList ==
    [][ \A p \in PendingFiles \ PendingFiles' :
           LET props == PendingProps(p)
               was   == vault[p].frontmatter
               now   == vault'[p].frontmatter
           IN  /\ \A k \in KeySet(props) :
                     LET derived == ListUnder(props, k)
                         had     == ListUnder(was, k)
                     IN  IF overwrite \/ k \notin KeySet(was)
                         THEN ListUnder(now, k) = derived
                         ELSE /\ ListUnder(now, k) =
                                    had \o SelectSeq(derived, LAMBDA v : v \notin Range(had))
                              /\ SubSeq(ListUnder(now, k), 1, Len(had)) = had
                              /\ \A n \in (Len(had) + 1)..Len(ListUnder(now, k)) :
                                    ListUnder(now, k)[n] \notin Range(had)
               /\ KeySet(now) = KeySet(was) \cup KeySet(props)
               /\ \A k \in KeySet(was) \ KeySet(props) :
                     ListUnder(now, k) = ListUnder(was, k) ]_vars

\* append mode: a.md had topic: [x, hello, y]; its nodes f2 and f3 derive
\* topic: [world, hello]; after the write the list is [x, hello, y, world]
C12_Witness ==
    /\ pc = "writing" /\ pending = <<>>
    /\ ~overwrite
    /\ canvas.nodes[3].file = "a.md"
    /\ \E j \in 1..Len(canvas.edges) :
          canvas.edges[j].fromNode = "f2" /\ canvas.edges[j].toNode = "k2"
    /\ \E j \in 1..Len(canvas.edges) :
          canvas.edges[j].fromNode = "f3" /\ canvas.edges[j].toNode = "k1"
    /\ ListUnder(vault["a.md"].frontmatter, "topic") = <<"x", "hello", "y", "world">>

(***************************************************************************)
(* C15  A document that appears as several file nodes: at the moment the   *)
(* writes are issued, the map to be written to the document has, under     *)
(* every key, the value lists of its nodes concatenated in canvas order;   *)
(* its keys are in the order in which they are first seen when the nodes   *)
(* are read in canvas order (so the keys of the first node that is not     *)
(* null come first); a node whose result is null adds nothing and the      *)
(* nodes after it still count.  A Markdown document gets a write exactly   *)
(* when its nodes have a key between them.                                 *)
(***************************************************************************)
NodesOf(p) == {i \in 1..Len(fileNodes) : fileNodes[i].filePath = p}

\* the lists under k of the nodes of p from the i-th file node on, concatenated
RECURSIVE ListsFrom(_, _, _)
ListsFrom(p, k, i) ==
    IF i > Len(fileNodes) THEN <<>>
    ELSE (IF i \in NodesOf(p) THEN ListUnder(fileNodes[i].propsOnCanvas, k) ELSE <<>>)
             \o ListsFrom(p, k, i + 1)

KeysAmong(p) == UNION {KeySet(fileNodes[i].propsOnCanvas) : i \in NodesOf(p)}

\* where k is first seen: the first node of p that has it, and its place there
FirstNodeWith(p, k) ==
    CHOOSE i \in NodesOf(p) :
        /\ k \in KeySet(fileNodes[i].propsOnCanvas)
        /\ \A j \in NodesOf(p) : j < i => k \notin KeySet(fileNodes[j].propsOnCanvas)

PlaceIn(props, k) == CHOOSE n \in 1..Len(props.entries) : props.entries[n].key = k

SeenBefore(p, k1, k2) ==
    LET i1 == FirstNodeWith(p, k1)
        i2 == FirstNodeWith(p, k2)
    IN  \/ i1 < i2
        \/ /\ i1 = i2
           /\ PlaceIn(fileNodes[i1].propsOnCanvas, k1) < PlaceIn(fileNodes[i1].propsOnCanvas, k2)

C15_MergedMap ==
    [][ pc = "derived" /\ pc' = "writing" =>
          \A p \in Paths :
             /\ p \in PendingFiles' <=>
                    /\ KeysAmong(p) # {}
                    /\ extensionOf(p) = "md"
                    /\ onlyUpdateNoteAtPath \in {NoVal, p}
             /\ p \in PendingFiles' =>
                    LET merged == PendingProps(p)'
                    IN  /\ KeySet(merged) = KeysAmong(p)
                        /\ \A k \in KeysAmong(p) : ListUnder(merged, k) = ListsFrom(p, k, 1)
                        /\ \A k1, k2 \in KeysAmong(p) :
                              k1 # k2 =>
                                 (PlaceIn(merged, k1) < PlaceIn(merged, k2) <=> SeenBefore(p, k1, k2)) ]_vars

\* a.md is f1 (null: no edge, no group), f2 (topic: [world]) and f3 (in g1,
\* groups: [Inbox], topic: [hello]): its map is topic: [world, hello], then
\* groups: [Inbox]
C15_Witness ==
    /\ pc = "writing"
    /\ settings.useGroups
    /\ Len(fileNodes) = 3
    /\ \A i \in 1..3 : fileNodes[i].filePath = "a.md"
    /\ fileNodes[1].propsOnCanvas.isNull
    /\ "a.md" \in PendingFiles
    /\ PendingProps("a.md").entries =
          << Entry("topic", <<"world", "hello">>), Entry("groups", <<"Inbox">>) >>

(***************************************************************************)
(* C13  As claimed: a key listed in excludeKeys (compared without regard   *)
(* to case) is never written by a push run: no step of the run changes,    *)
(* adds or removes the list a document has under such a key.  The push run *)
(* does not consult excludeKeys at all; C13_Claimed_ExcludedKeyNeverWritten*)
(* fails for an edge labeled "tags".                                       *)
(***************************************************************************)
IsExcludedKey(k) ==
    \E n \in 1..Len(settings.excludeKeys) :
        toUpperCase(trim(settings.excludeKeys[n])) = toUpperCase(k)

C13_Claimed_ExcludedKeyNeverWritten ==
    [][ \A p \in Paths :
           \A k \in KeySet(vault[p].frontmatter) \cup KeySet(vault'[p].frontmatter) :
               IsExcludedKey(k) =>
                   /\ k \in KeySet(vault[p].frontmatter)
                   /\ k \in KeySet(vault'[p].frontmatter)
                   /\ ListUnder(vault'[p].frontmatter, k) = ListUnder(vault[p].frontmatter, k) ]_vars

(***************************************************************************)
(* C19  The canvas made from a note has, for each list property in order,  *)
(* exactly one edge: from the root node, labeled with the key, to the      *)
(* group node made for the property (labeled with the key) when the list   *)
(* has more than one value, and to the node of the single value when it    *)
(* has exactly one; there are as many groups as lists of more than one     *)
(* value, so none for a one-value list.                                    *)
(***************************************************************************)
Built == pc \in {"built", "created"}

\* positions, in canvasContents.nodes, of the nodes of the given types
SynthNodes(types) ==
    {k \in 1..Len(canvasContents.nodes) : canvasContents.nodes[k].type \in types}

\* the nodes made for the i-th property: one, or a group and its members
NodesMadeFor(i) ==
    IF Len(listTypeProps[i].vals) > 1 THEN Len(listTypeProps[i].vals) + 1 ELSE 1

RECURSIVE NodesMadeBefore(_)
NodesMadeBefore(i) == IF i = 1 THEN 0 ELSE NodesMadeBefore(i - 1) + NodesMadeFor(i - 1)

\* ids are given in the order of creation, the root being "0" and the first
\* node made "2"
FirstIdFor(i) == ToString(2 + NodesMadeBefore(i))

\* the node n shows the value val
Shows(n, val) ==
    CASE n.type = "text" -> n.text = val
      [] n.type = "link" -> n.url = val
      [] n.type = "file" -> substring(val, 0, 2) = "[["
      [] OTHER -> FALSE

C19_OneEdgePerProperty ==
    Built =>
        /\ Len(canvasContents.edges) = Len(listTypeProps)
        /\ \A i \in 1..Len(listTypeProps) :
              LET e    == canvasContents.edges[i]
                  key  == listTypeProps[i].key
                  vals == listTypeProps[i].vals
                  ends == {k \in 1..Len(canvasContents.nodes) :
                              canvasContents.nodes[k].id = e.toNode}
              IN  /\ e.fromNode = "0" /\ e.label = key
                  /\ e.toNode = FirstIdFor(i)
                  /\ Cardinality(ends) = 1
                  /\ \A k \in ends :
                        LET t == canvasContents.nodes[k]
                        IN  IF Len(vals) > 1
                            THEN t.type = "group" /\ t.label = key
                            ELSE t.type # "group" /\ Shows(t, vals[1])
        /\ Cardinality(SynthNodes({"group"})) =
              Cardinality({i \in 1..Len(listTypeProps) : Len(listTypeProps[i].vals) > 1})

\* K1 has two values and K2 one: the edge of K1 ends at the group "2", the
\* edge of K2 at the text node "5"
C19_Witness ==
    /\ pc = "created"
    /\ Len(listTypeProps) = 2
    /\ Len(listTypeProps[1].vals) = 2 /\ Len(listTypeProps[2].vals) = 1
    /\ canvas.edges[1].toNode = "2" /\ canvas.edges[2].toNode = "5"
    /\ \E k \in 1..Len(canvas.nodes) :
          canvas.nodes[k].id = "2" /\ canvas.nodes[k].type = "group" /\ canvas.nodes[k].label = "K1"
    /\ \E k \in 1..Len(canvas.nodes) : canvas.nodes[k].id = "5" /\ canvas.nodes[k].type = "text"

(***************************************************************************)
(* C20  As claimed: every group of the canvas made from a note contains,   *)
(* by the inclusive bounding-box rule (groupContainsNode), each node laid  *)
(* out for the values of its property, and contains neither the root nor   *)
(* a node laid out for another property.  The members are written with     *)
(* their x and y as texts, for which the rule computes y + height as the   *)
(* text of y followed by the text of the height: no member passes it, and  *)
(* C20_Claimed_GroupContainsItsMembers fails for every group.              *)
(***************************************************************************)
SynthNode(id) ==
    canvasContents.nodes[CHOOSE k \in 1..Len(canvasContents.nodes) :
                            canvasContents.nodes[k].id = id]

\* the ids of the members of the group made for the i-th property
MemberIdsFor(i) ==
    { ToString(2 + NodesMadeBefore(i) + m) : m \in 1..Len(listTypeProps[i].vals) }

C20_Claimed_GroupContainsItsMembers ==
    Built =>
        \A i \in 1..Len(listTypeProps) :
            Len(listTypeProps[i].vals) > 1 =>
                LET group == SynthNode(FirstIdFor(i))
                IN  \A k \in SynthNodes(ContentTypes) :
                        groupContainsNode(group, canvasContents.nodes[k])
                            <=> canvasContents.nodes[k].id \in MemberIdsFor(i)

(***************************************************************************)
(* Vocabulary of a pull, stated on the saved canvas and the documents.     *)
(***************************************************************************)
\* the place of the last "/" of a path, 0 without one
LastSlash(path) ==
    CHOOSE i \in 0..Len(path) :
        /\ i = 0 \/ SubSeq(path, i, i) = "/"
        /\ \A j \in (i + 1)..Len(path) : SubSeq(path, j, j) # "/"

\* the normalized file name of a file node: the file's name without ".md",
\* written as a link
WikiNameOf(path) == "[[" \o SubSeq(path, LastSlash(path) + 1, Len(path) - 3) \o "]]"

\* a value names a node by exact content or by normalized file name
MatchesNode(n, v) ==
    CASE n.type = "text" -> n.text = v
      [] n.type = "link" -> n.url = v
      [] n.type = "file" -> n.file = v \/ WikiNameOf(n.file) = v
      [] OTHER -> FALSE

MatchedIn(c, v) == \E i \in 1..Len(c.nodes) : MatchesNode(c.nodes[i], v)

\* the occurrences <<node, entry, place>> of the values a pull with
\* arguments arg reads: the list properties of the notes pulled from, the
\* excluded keys left out
PulledFrom(arg) ==
    UNION { UNION { { <<i, j, l>> : l \in 1..Len(vault[arg.nodesToPullFrom[i].file].frontmatter.entries[j].vals) } :
                    j \in { j \in 1..Len(vault[arg.nodesToPullFrom[i].file].frontmatter.entries) :
                            LET fm == vault[arg.nodesToPullFrom[i].file].frontmatter
                            IN  /\ ~IsExcludedKey(fm.entries[j].key)
                                /\ fm.entries[j].key \notin fm.scalars } } :
            i \in 1..Len(arg.nodesToPullFrom) }

OccNode(arg, o) == arg.nodesToPullFrom[o[1]]
OccKey(arg, o) == vault[OccNode(arg, o).file].frontmatter.entries[o[2]].key
OccVal(arg, o) == vault[OccNode(arg, o).file].frontmatter.entries[o[2]].vals[o[3]]

\* a step that is a pull run which ended without an error, made while the
\* view showed the saved file
PullDone == pulls' = pulls + 1 /\ thrown' = NoVal /\ viewData = canvas

\* there is an edge of c from node `from`, labeled k, to a node of the first
\* many nodes of c that v names
EdgeToMatch(c, many, from, k, v) ==
    \E e \in 1..Len(c.edges), t \in 1..many :
        /\ MatchesNode(c.nodes[t], v)
        /\ c.edges[e].fromNode = from
        /\ c.edges[e].toNode = c.nodes[t].id
        /\ c.edges[e].label = k

(***************************************************************************)
(* C16  Pulling a value that names a node of the canvas (by exact content  *)
(* or by normalized file name) makes no node for it: a pull adds one node  *)
(* per occurrence of a value that names no node (none when only existing   *)
(* connections are asked for); afterwards an edge with the property's key  *)
(* as label joins the note's node and a node the value names, and every    *)
(* edge added ends at an added node or at such a named node that no edge   *)
(* with the same fromNode and label ended at before; and a second pull of  *)
(* the same data on the saved result adds no edge.                         *)
(***************************************************************************)
C16_Claimed_MatchMakesOnlyEdgeAndRepeatAddsNone ==
    [][ PullDone =>
          LET arg == pullArgs'
              olds == Len(canvas.nodes)
              unmatched == { o \in PulledFrom(arg) : ~MatchedIn(canvas, OccVal(arg, o)) }
          IN  /\ Len(canvas'.nodes) - olds
                    = IF arg.existingOnly THEN 0 ELSE Cardinality(unmatched)
              /\ \A o \in PulledFrom(arg) \ unmatched :
                    EdgeToMatch(canvas', olds, OccNode(arg, o).id, OccKey(arg, o), OccVal(arg, o))
              /\ \A e \in (Len(canvas.edges) + 1)..Len(canvas'.edges) :
                    \/ \E m \in (olds + 1)..Len(canvas'.nodes) :
                            canvas'.edges[e].toNode = canvas'.nodes[m].id
                    \/ \E o \in PulledFrom(arg) \ unmatched :
                        /\ canvas'.edges[e].fromNode = OccNode(arg, o).id
                        /\ canvas'.edges[e].label = OccKey(arg, o)
                        /\ \E t \in 1..olds :
                            /\ MatchesNode(canvas.nodes[t], OccVal(arg, o))
                            /\ canvas'.edges[e].toNode = canvas.nodes[t].id
                        /\ ~\E d \in 1..Len(canvas.edges) :
                                /\ canvas.edges[d].fromNode = canvas'.edges[e].fromNode
                                /\ canvas.edges[d].toNode = canvas'.edges[e].toNode
                                /\ canvas.edges[d].label = canvas'.edges[e].label
              /\ (pc = "pulled" /\ pullArgs' = pullArgs) => canvas'.edges = canvas.edges ]_vars

\* the nodes and the edges a step appends to the saved canvas
AddedNodes == (Len(canvas.nodes) + 1)..Len(canvas'.nodes)
AddedEdges == (Len(canvas.edges) + 1)..Len(canvas'.edges)

\* the occurrences of values that name a node of the canvas a pull starts from
MatchedOccs(arg) == { o \in PulledFrom(arg) : MatchedIn(canvas, OccVal(arg, o)) }

\* the document a link value "[[name]]" names, if the vault has it
LinkedPath(v) ==
    IF Len(v) > 4 /\ SubSeq(v, 1, 2) = "[[" /\ SubSeq(v, Len(v) - 1, Len(v)) = "]]"
            /\ (SubSeq(v, 3, Len(v) - 2) \o ".md") \in Paths
    THEN SubSeq(v, 3, Len(v) - 2) \o ".md"
    ELSE NoVal

\* node m was made for value v of key k: a file node of the linked document,
\* or a card with the value as text
MadeFor(m, k, v) ==
    /\ m.label = k
    /\ IF LinkedPath(v) # NoVal THEN m.type = "file" /\ m.file = LinkedPath(v)
       ELSE m.type = "text" /\ m.text = v

(***************************************************************************)
(* C21  In a pull run a value that names a card, file or url node (never a *)
(* group) adds at most an edge and no node; a value that names none adds,  *)
(* when existing-only is off, exactly one node and one edge from the       *)
(* pulled node to it, labeled with the key, and nothing when existing-only *)
(* is on; in existing-only mode the nodes of the canvas are unchanged.     *)
(***************************************************************************)
C21_PullPerValue ==
    [][ PullDone =>
          LET arg == pullArgs'
              matched == MatchedOccs(arg)
              unmatched == PulledFrom(arg) \ matched
              toOld == { e \in AddedEdges :
                            \A m \in AddedNodes : canvas'.edges[e].toNode # canvas'.nodes[m].id }
          IN  /\ SubSeq(canvas'.nodes, 1, Len(canvas.nodes)) = canvas.nodes
              /\ SubSeq(canvas'.edges, 1, Len(canvas.edges)) = canvas.edges
              /\ arg.existingOnly => canvas'.nodes = canvas.nodes
              /\ Cardinality(AddedNodes) = IF arg.existingOnly THEN 0 ELSE Cardinality(unmatched)
              /\ Cardinality(toOld) <= Cardinality(matched)
              /\ \A e \in toOld :
                    \E o \in matched, t \in 1..Len(canvas.nodes) :
                        /\ canvas.nodes[t].type # "group"
                        /\ MatchesNode(canvas.nodes[t], OccVal(arg, o))
                        /\ canvas'.edges[e].fromNode = OccNode(arg, o).id
                        /\ canvas'.edges[e].toNode = canvas.nodes[t].id
                        /\ canvas'.edges[e].label = OccKey(arg, o)
              /\ \A m \in AddedNodes :
                    /\ Cardinality({ e \in AddedEdges :
                                        canvas'.edges[e].toNode = canvas'.nodes[m].id }) = 1
                    /\ \E o \in unmatched, e \in AddedEdges :
                        /\ MadeFor(canvas'.nodes[m], OccKey(arg, o), OccVal(arg, o))
                        /\ canvas'.edges[e].fromNode = OccNode(arg, o).id
                        /\ canvas'.edges[e].toNode = canvas'.nodes[m].id
                        /\ canvas'.edges[e].label = OccKey(arg, o)
              /\ \A o \in unmatched :
                    arg.existingOnly \/
                        \E m \in AddedNodes :
                            MadeFor(canvas'.nodes[m], OccKey(arg, o), OccVal(arg, o)) ]_vars

\* a pull with existing-only off has added a node for a value no node named
\* (a group labeled with the value was there) and an edge for a value a card
\* named; a pull with existing-only on has run as well
C21_Witness ==
    /\ pc = "pulled"
    /\ pulls = 2
    /\ pullArgs.existingOnly
    /\ \E g \in 1..Len(canvas.nodes) : canvas.nodes[g].type = "group" /\ canvas.nodes[g].label = "x"
    /\ \E m \in 1..Len(canvas.nodes), e \in 1..Len(canvas.edges) :
        /\ canvas.nodes[m].type = "text" /\ canvas.nodes[m].text = "x"
        /\ canvas.edges[e].fromNode = "f1" /\ canvas.edges[e].toNode = canvas.nodes[m].id
        /\ canvas.edges[e].label = "topic"
    /\ \E e \in 1..Len(canvas.edges) :
        /\ canvas.edges[e].id # "e1"
        /\ canvas.edges[e].fromNode = "f1" /\ canvas.edges[e].toNode = "k1"

\* two edges with the same fromNode, toNode and label
SameTriple(d, e) == d.fromNode = e.fromNode /\ d.toNode = e.toNode /\ d.label = e.label

\* two nodes that show the same value
SameContent(m, n) == m.type = n.type /\ m.text = n.text /\ m.file = n.file /\ m.url = n.url

(***************************************************************************)
(* C27  Within one pull run each distinct value that names no node of the  *)
(* canvas yields at most one new node, and at most one new edge is made    *)
(* per (fromNode, toNode, label), also when a value occurs several times.  *)
(***************************************************************************)
C27_Claimed_OneNodePerValueOneEdgePerTriple ==
    [][ PullDone =>
          /\ \A m, n \in AddedNodes :
                SameContent(canvas'.nodes[m], canvas'.nodes[n]) => m = n
          /\ \A d, e \in AddedEdges :
                SameTriple(canvas'.edges[d], canvas'.edges[e]) => d = e ]_vars

\* the ids of the nodes of a canvas
NodeIds(c) == { c.nodes[i].id : i \in 1..Len(c.nodes) }

(***************************************************************************)
(* C22  A pull run works from one snapshot of the canvas: the content the  *)
(* index is built from is the content the run appends to and writes back,  *)
(* so every edge a run adds joins nodes of the canvas it writes.           *)
(***************************************************************************)
C22_Claimed_OneSnapshot ==
    [][ (pulls' = pulls + 1 /\ thrown' = NoVal) =>
          \A e \in 1..Len(canvas'.edges) :
            (\A d \in 1..Len(viewData.edges) : viewData.edges[d].id # canvas'.edges[e].id)
                => /\ canvas'.edges[e].fromNode \in NodeIds(canvas')
                   /\ canvas'.edges[e].toNode \in NodeIds(canvas') ]_vars

(***************************************************************************)
(* C28  For every list-typed property map handed to canvas synthesis, one  *)
(* with an empty list included, synthesis ends without an error and gives  *)
(* a canvas whose node ids are pairwise distinct and whose edges each have *)
(* a fromNode and a toNode that name exactly one node of the output.       *)
(***************************************************************************)
C28_Claimed_SynthesisTotalAndWellFormed ==
    /\ pc # "failed"
    /\ Built =>
        /\ \A i, j \in 1..Len(canvasContents.nodes) :
              canvasContents.nodes[i].id = canvasContents.nodes[j].id => i = j
        /\ \A e \in 1..Len(canvasContents.edges) :
              /\ Cardinality({ k \in 1..Len(canvasContents.nodes) :
                                canvasContents.nodes[k].id = canvasContents.edges[e].fromNode }) = 1
              /\ Cardinality({ k \in 1..Len(canvasContents.nodes) :
                                canvasContents.nodes[k].id = canvasContents.edges[e].toNode }) = 1

\* the property lists the note had when the canvas was made from it
NoteKeys == { listTypeProps[i].key : i \in 1..Len(listTypeProps) }

NoteValues(k) ==
    UNION { Range(listTypeProps[i].vals) : i \in { i \in 1..Len(listTypeProps) :
                                                      listTypeProps[i].key = k } }

\* a value that is a card text or a url: not written as a link to a file
IsTextOrUrl(v) == ~(Len(v) >= 2 /\ SubSeq(v, 1, 2) = "[[")

(***************************************************************************)
(* C29  Round trip: for a property map with distinct non-empty keys whose  *)
(* values are card texts or urls, the properties derived (useCards and     *)
(* useUrls on) for the root file node of the canvas synthesized from the   *)
(* map have the same keys and, under every key, the same set of values.    *)
(***************************************************************************)
C29_Claimed_RoundTrip ==
    (/\ pc = "derived"
     /\ listTypeProps # <<>>
     /\ \A i \in 1..Len(listTypeProps) :
            /\ listTypeProps[i].vals # <<>>
            /\ \A v \in Range(listTypeProps[i].vals) : IsTextOrUrl(v))
        => \E f \in 1..Len(fileNodes) :
            /\ fileNodes[f].filePath = noteFile
            /\ ~fileNodes[f].propsOnCanvas.isNull
            /\ KeySet(fileNodes[f].propsOnCanvas) = NoteKeys
            /\ \A k \in NoteKeys : ValuesUnder(fileNodes[f].propsOnCanvas, k) = NoteValues(k)

PushFinished == pc = "writing" /\ pending = <<>> /\ backlinksMap = <<>> /\ ~content.exists

\* the links the run collected for the file, none if it collected none
BacklinksFor(file) ==
    LET map == backlinksMapOf(data, vault, settings)
    IN  IF Some(map, LAMBDA m : m.file = file)
        THEN Find(map, LAMBDA m : m.file = file).links
        ELSE <<>>

C26_Claimed_BothUpdatesPresent ==
    PushFinished =>
        \A f \in 1..Len(fileNodes) :
            LET file  == fileNodes[f].filePath
                props == fileNodes[f].propsOnCanvas
            IN  (~props.isNull /\ KeySet(props) # {} /\ BacklinksFor(file) # <<>>) =>
                    /\ \A k \in KeySet(props) :
                          ValuesUnder(props, k) \subseteq ValuesUnder(vault[file].frontmatter, k)
                    /\ \A l \in 1..Len(BacklinksFor(file)) :
                          includes(vault[file].body, "- " \o BacklinksFor(file)[l] \o "\n")

(***************************************************************************)
(* A canvas is open and canvas files are written.  The open canvas is the  *)
(* variable canvas, with the file nodes f1 (a.md) and f2 (b.md) and the    *)
(* card k1; canvas2 is another canvas file of the vault.  A handler runs   *)
(* from one await to the next: it reads the file and runs the loop of the  *)
(* added edges, runs the loop of the removed edges, and stores             *)
(* currentEdges; a loop that awaits nothing runs on into what follows it.  *)
(* The awaits inside one loop are taken together.                          *)
(***************************************************************************)
WatchNodes ==
    << FileData("f1", "a.md", NoVal, 0, 0, 1, 1),
       FileData("f2", "b.md", NoVal, 0, 2, 1, 1),
       CardNode("k1", "hello", 2, 0, 1, 1) >>

\* e1 and e2 are parallel, e1 with an arrow at its start has the id of e1,
\* e3 runs back with arrows at both ends, e4 ends on a card
WatchEdgeLists ==
    LET e1  == RawEdge("e1", "f1", "f2", NoVal, NoVal, NoVal)
        e1b == RawEdge("e1", "f1", "f2", NoVal, "arrow", NoVal)
        e2  == RawEdge("e2", "f1", "f2", "topic", NoVal, NoVal)
        e3  == RawEdge("e3", "f2", "f1", NoVal, "arrow", NoVal)
        e4  == RawEdge("e4", "f1", "k1", "topic", NoVal, NoVal)
    IN  { <<>>, <<e1>>, <<e1b>>, <<e2>>, <<e1, e2>>, <<e3>>, <<e4>>, <<e1, e4>> }

WatchCanvases == { [nodes |-> WatchNodes, edges |-> edges] : edges \in WatchEdgeLists }

\* the other canvas shows the same two notes
OtherCanvases ==
    { [nodes |-> SubSeq(WatchNodes, 1, 2), edges |-> edges] :
        edges \in { <<>>, << RawEdge("o1", "f2", "f1", NoVal, NoVal, NoVal) >> } }

\* the open canvas and the text of a.md that lists what the canvas shows
WatchStarts ==
    { << <<>>, "" >>,
      << <<>>, "Text\n" >>,
      << << RawEdge("e1", "f1", "f2", NoVal, NoVal, NoVal) >>,
         "\n\n## Connections\n- [[b]]\n" >>,
      << << RawEdge("e1", "f1", "f2", NoVal, NoVal, NoVal) >>,
         "Text\n\n## Connections\n- [[b]]\n\n## More\ntext\n" >> }

InitWatch ==
    /\ \E start \in WatchStarts :
          /\ canvas = [nodes |-> WatchNodes, edges |-> start[1]]
          /\ vault = [ p \in Paths |-> IF p = "a.md" THEN DocWith(NoFrontMatter, start[2])
                                       ELSE Doc(NoFrontMatter) ]
    /\ settings \in {DEFAULT_SETTINGS, [DEFAULT_SETTINGS EXCEPT !.useBacklinks = FALSE]}
    /\ pc = "start"
    /\ data = NoMap
    /\ fileNodes = <<>>
    /\ thrown = NoVal
    /\ overwrite = FALSE
    /\ onlyUpdateNoteAtPath = NoVal
    /\ pending = <<>>
    /\ NoNoteRun
    /\ NoStageRun
    /\ NoPullRun
    /\ lastCanvasEdges = <<>>
    /\ canvas2 \in {c \in OtherCanvases : c.edges = <<>>}
    /\ handlers = <<>>
    /\ calls = <<>>
    /\ written = <<>>

\* the 'file-open' handler for the canvas
FileOpen ==
    /\ pc = "start"
    /\ pc' = "watching"
    /\ lastCanvasEdges' = IF settings.useBacklinks THEN canvas.edges ELSE lastCanvasEdges
    /\ written' = << [file |-> "canvas", edges |-> canvas.edges] >>
    /\ UNCHANGED <<canvas, settings, data, fileNodes, thrown, pushVars, noteVars, pullVars,
                   stageVars, canvas2, handlers, calls>>

\* a canvas file is written and the 'modify' handler for it starts: it
\* returns at once if backlinks are off, else it awaits getCanvasData
Written(file, c) ==
    /\ canvas' = IF file = "canvas" THEN c ELSE canvas
    /\ canvas2' = IF file = "canvas2" THEN c ELSE canvas2
    /\ written' = Append(written, [file |-> file, edges |-> c.edges])
    /\ handlers' = IF settings.useBacklinks
                   THEN Append(handlers, [file |-> file, stage |-> "new", canvasData |-> NoCanvas])
                   ELSE handlers
    /\ UNCHANGED <<settings, pc, data, fileNodes, thrown, pushVars, noteVars, pullVars,
                   stageVars, lastCanvasEdges, calls>>

\* a write while no handler is running
WriteCanvas ==
    /\ pc = "watching"
    /\ handlers = <<>>
    /\ Len(written) <= MaxWrites
    /\ \/ \E c \in WatchCanvases : Written("canvas", c)
       \/ \E c \in OtherCanvases : Written("canvas2", c)

\* a write of the open canvas while a handler is running
WriteCanvasMeanwhile ==
    /\ pc = "watching"
    /\ handlers # <<>>
    /\ Len(written) <= MaxWrites
    /\ \E c \in WatchCanvases : Written("canvas", c)

\* handler i makes the calls cs and awaits them
Awaits(i, canvasData, stage, cs) ==
    /\ vault' = backlinksBetweenFiles(vault, settings, cs)
    /\ calls' = calls \o cs
    /\ handlers' = [handlers EXCEPT ![i] = [@ EXCEPT !.stage = stage, !.canvasData = canvasData]]
    /\ lastCanvasEdges' = lastCanvasEdges

\* this.lastCanvasEdges = currentEdges, and handler i has finished
Stores(i, canvasData) ==
    /\ lastCanvasEdges' = canvasData.edges
    /\ handlers' = [j \in 1..(Len(handlers) - 1) |-> IF j < i THEN handlers[j] ELSE handlers[j + 1]]
    /\ vault' = vault
    /\ calls' = calls

\* the loop of the removed edges and what follows it
Removes(i, canvasData, cs) ==
    IF cs # <<>> THEN Awaits(i, canvasData, "removed", cs) ELSE Stores(i, canvasData)

\* the loop of the added edges and what follows it
Adds(i, canvasData, cs) ==
    IF cs # <<>> THEN Awaits(i, canvasData, "added", cs)
    ELSE Removes(i, canvasData,
                 backlinkCalls("remove", canvasData, vault,
                               removedEdges(canvasData.edges, lastCanvasEdges)))

\* getCanvasData(file) of a handler
canvasDataOf(file) == IF file = "canvas" THEN canvas ELSE canvas2

\* getCanvasData resolves: the handler goes on to its first await, or to its end
HandlerStarts ==
    /\ pc = "watching"
    /\ \E i \in 1..Len(handlers) :
          /\ handlers[i].stage = "new"
          /\ Adds(i, canvasDataOf(handlers[i].file),
                  backlinkCalls("add", canvasDataOf(handlers[i].file), vault,
                                addedEdges(canvasDataOf(handlers[i].file).edges,
                                           lastCanvasEdges)))
    /\ UNCHANGED <<canvas, settings, pc, data, fileNodes, thrown, overwrite,
                   onlyUpdateNoteAtPath, pending, noteVars, pullVars, stageVars, canvas2,
                   written>>

\* the calls of the first loop have resolved
HandlerRemoves ==
    /\ pc = "watching"
    /\ \E i \in 1..Len(handlers) :
          /\ handlers[i].stage = "added"
          /\ Removes(i, handlers[i].canvasData,
                     backlinkCalls("remove", handlers[i].canvasData, vault,
                                   removedEdges(handlers[i].canvasData.edges,
                                                lastCanvasEdges)))
    /\ UNCHANGED <<canvas, settings, pc, data, fileNodes, thrown, overwrite,
                   onlyUpdateNoteAtPath, pending, noteVars, pullVars, stageVars, canvas2,
                   written>>

\* the calls of the second loop have resolved
HandlerStores ==
    /\ pc = "watching"
    /\ \E i \in 1..Len(handlers) :
          /\ handlers[i].stage = "removed"
          /\ Stores(i, handlers[i].canvasData)
    /\ UNCHANGED <<canvas, settings, pc, data, fileNodes, thrown, overwrite,
                   onlyUpdateNoteAtPath, pending, noteVars, pullVars, stageVars, canvas2,
                   written>>

\* every write is handled to its end before the next
NextWatch == FileOpen \/ WriteCanvas \/ HandlerStarts \/ HandlerRemoves \/ HandlerStores

SpecWatch == InitWatch /\ [][NextWatch]_vars

\* writes of the open canvas also while handlers are running
NextOverlap == NextWatch \/ WriteCanvasMeanwhile

SpecOverlap == InitWatch /\ [][NextOverlap]_vars

(***************************************************************************)
(* C23  The remembered edge set belongs to the one open canvas: opening    *)
(* the canvas sets it to the edges of the canvas, a handled write of the   *)
(* canvas replaces it by the edges the canvas then has, and the handling   *)
(* of a write of another canvas file leaves it alone and adds and removes  *)
(* no backlink.                                                            *)
(***************************************************************************)
\* this step is one of the handler of a write of `file`
Handling(file) == handlers # <<>> /\ handlers[1].file = file /\ handlers' # handlers

C23_Claimed_ScopedToOpenCanvas ==
    [][ /\ (pc = "start" /\ pc' = "watching" /\ settings.useBacklinks)
            => lastCanvasEdges' = canvas.edges
        /\ (Handling("canvas") /\ handlers' = <<>>) => lastCanvasEdges' = canvas.edges
        /\ Handling("canvas2") =>
                /\ lastCanvasEdges' = lastCanvasEdges
                /\ calls' = calls
                /\ vault' = vault ]_vars

(***************************************************************************)
(* C24  With every write of the open canvas handled before the next, and   *)
(* no other canvas written, the backlinks section of a.md lists b exactly  *)
(* when the canvas has an edge from the node of a.md to the node of b.md   *)
(* or a bidirectional edge the other way, and the same for b.md and a.     *)
(***************************************************************************)
\* where the first line that is the heading starts, -1 for none
headingIndex(text, heading) ==
    IF headingMatch(text, heading)
    THEN CHOOSE i \in 0..Len(text) :
            /\ isLineStart(text, i)
            /\ i + Len(heading) <= Len(text)
            /\ substring(text, i, i + Len(heading)) = heading
            /\ blankToLineEnd(text, i + Len(heading))
            /\ \A j \in 0..(i - 1) :
                  ~ /\ isLineStart(text, j)
                    /\ j + Len(heading) <= Len(text)
                    /\ substring(text, j, j + Len(heading)) = heading
                    /\ blankToLineEnd(text, j + Len(heading))
    ELSE -1

\* the text under the heading, up to the next heading
SectionOf(text, heading) ==
    IF headingIndex(text, heading) = -1 THEN ""
    ELSE substring(
            substring(text, headingIndex(text, heading) + Len(heading), Len(text)), 0,
            sectionEndIndex(substring(text, headingIndex(text, heading) + Len(heading),
                                      Len(text))))

Lists(path, name) ==
    includes(SectionOf(vault[path].body, settings.backlinksHeading), "- [[" \o name \o "]]")

Connects(from, to) ==
    \E i \in 1..Len(canvas.edges) :
        \/ canvas.edges[i].fromNode = from /\ canvas.edges[i].toNode = to
        \/ /\ canvas.edges[i].fromNode = to /\ canvas.edges[i].toNode = from
           /\ (canvas.edges[i].fromEnd = "arrow" \/ canvas.edges[i].toEnd = "none")

OnlyOpenCanvasWritten == \A k \in 1..Len(written) : written[k].file = "canvas"

WritesHandled ==
    pc = "watching" /\ handlers = <<>> /\ settings.useBacklinks /\ OnlyOpenCanvasWritten

C24_Claimed_SectionFollowsCanvas ==
    WritesHandled =>
        /\ Lists("a.md", "b") <=> Connects("f1", "f2")
        /\ Lists("b.md", "a") <=> Connects("f2", "f1")

(***************************************************************************)
(* C25  When two writes of the open canvas are handled by handlers that    *)
(* overlap, then after both have finished the remembered edge set is the   *)
(* edge set of the last write, and every edge between the two notes has    *)
(* had addBacklinkBetweenFiles called for it once per write that added it  *)
(* and removeBacklinkBetweenFiles once per write that removed it.          *)
(***************************************************************************)
IdsOf(edges) == { edges[i].id : i \in 1..Len(edges) }

\* the writes that added (removed) the edge id
WritesAdding(id) ==
    { k \in 2..Len(written) :
        id \in IdsOf(written[k].edges) /\ id \notin IdsOf(written[k - 1].edges) }

WritesRemoving(id) ==
    { k \in 2..Len(written) :
        id \notin IdsOf(written[k].edges) /\ id \in IdsOf(written[k - 1].edges) }

CallsFor(op, id) == { c \in 1..Len(calls) : calls[c].op = op /\ calls[c].edge = id }

C25_Claimed_OverlapKeepsSetAndCallsOnce ==
    (WritesHandled /\ Len(written) = 3) =>
        /\ lastCanvasEdges = canvas.edges
        /\ \A id \in {"e1", "e2", "e3"} :
              /\ Cardinality(CallsFor("add", id)) = Cardinality(WritesAdding(id))
              /\ Cardinality(CallsFor("remove", id)) = Cardinality(WritesRemoving(id))

====
